---------------------------- MODULE Spec2Model ----------------------------
(***************************************************************************)
(* A model of the ad naming tool: the transcript classifier, the sequence  *)
(* allocator and file-name composer of the process-video route, the        *)
(* batch rename route, and the two revisions of the page that drive them.  *)
(* Text is modelled as TLA+ strings, one character per position, so that   *)
(* matching, formatting and parsing are computed as the code computes them.*)
(***************************************************************************)
EXTENDS Integers, Sequences, FiniteSets, TLC

VARIABLES
    transcript,        \* classifier: the transcript handed to the classifier
    cls,               \* classifier: the result of the last classification
    naming,            \* allocator and composer: the inputs and the result of one naming
    creatorSelection,  \* page: the selected entry of CREATOR_OPTIONS
    customInitials,    \* page: the initials typed for an outside creator
    startingSequence,  \* page: the Starting Sequence # setting
    drive,             \* storage provider: the name of every file, by file id
    rn,                \* rename route: the request being served and its progress
    legacy,            \* earlier page: its state cells and its Process Videos run
    page,              \* page: the state cells other than the naming settings
    load,              \* page: the Load Videos run in flight
    tr,                \* page: the Transcribe All run in flight
    outcome,           \* for every file, how its last process or transcribe request ended
    clicks             \* the number of times each control of the page has been used

classifyVars == <<transcript, cls>>
configVars == <<creatorSelection, customInitials, startingSequence>>
renameVars == <<drive, rn>>
pageVars == <<page, load, tr>>
clientVars == <<legacy, pageVars, outcome, clicks>>
vars == <<transcript, cls, naming, creatorSelection, customInitials, startingSequence,
          drive, rn, legacy, page, load, tr, outcome, clicks>>

(***************************************************************************)
(* Characters and the string primitives of JavaScript used by the code.    *)
(***************************************************************************)
UpperChars == "ABCDEFGHIJKLMNOPQRSTUVWXYZ"
LowerChars == "abcdefghijklmnopqrstuvwxyz"
DigitChars == "0123456789"

CharAt(s, i) == SubSeq(s, i, i)

CharSet(s) == { CharAt(s, i) : i \in 1..Len(s) }

\* position of character c in the string s, 0 when absent
IndexIn(c, s) ==
    IF \E i \in 1..Len(s) : CharAt(s, i) = c
    THEN CHOOSE i \in 1..Len(s) : CharAt(s, i) = c
    ELSE 0

LowerOf == [c \in CharSet(UpperChars) |-> CharAt(LowerChars, IndexIn(c, UpperChars))]
UpperOf == [c \in CharSet(LowerChars) |-> CharAt(UpperChars, IndexIn(c, LowerChars))]

IsUpper(c) == c \in DOMAIN LowerOf
IsLower(c) == c \in DOMAIN UpperOf
IsDigit(c) == c \in CharSet(DigitChars)
\* \w of a JavaScript regular expression: [A-Za-z0-9_]
IsWordChar(c) == IsUpper(c) \/ IsLower(c) \/ IsDigit(c) \/ c = "_"
\* \s of a JavaScript regular expression (the white space of the model's alphabet)
IsSpace(c) == c \in {" ", "\t", "\n"}

\* the character-wise functions split the string in halves, which keeps the
\* evaluation shallow on long transcripts
RECURSIVE toLowerCase(_)
toLowerCase(s) ==
    IF Len(s) = 0 THEN ""
    ELSE IF Len(s) = 1 THEN (IF IsUpper(s) THEN LowerOf[s] ELSE s)
    ELSE LET h == Len(s) \div 2
         IN toLowerCase(SubSeq(s, 1, h)) \o toLowerCase(SubSeq(s, h + 1, Len(s)))

RECURSIVE toUpperCase(_)
toUpperCase(s) ==
    IF Len(s) = 0 THEN ""
    ELSE IF Len(s) = 1 THEN (IF IsLower(s) THEN UpperOf[s] ELSE s)
    ELSE LET h == Len(s) \div 2
         IN toUpperCase(SubSeq(s, 1, h)) \o toUpperCase(SubSeq(s, h + 1, Len(s)))

\* String.prototype.includes: a scan over the start positions
includes(s, p) ==
    \E i \in 0..(Len(s) - Len(p)) : SubSeq(s, i + 1, i + Len(p)) = p

\* String.prototype.slice(0, n) for n >= 0
sliceTo(s, n) == SubSeq(s, 1, IF n < Len(s) THEN n ELSE Len(s))

\* String.prototype.trim
RECURSIVE trimStart(_)
trimStart(s) ==
    IF s # "" /\ IsSpace(Head(s)) THEN trimStart(Tail(s)) ELSE s

RECURSIVE trimEnd(_)
trimEnd(s) ==
    IF s # "" /\ IsSpace(CharAt(s, Len(s))) THEN trimEnd(SubSeq(s, 1, Len(s) - 1)) ELSE s

trim(s) == trimEnd(trimStart(s))

\* String.prototype.split(" "): the pieces between single spaces, empty pieces kept
RECURSIVE splitSpace(_)
splitSpace(s) ==
    LET k == IndexIn(" ", s)
    IN IF k = 0 THEN <<s>>
       ELSE <<SubSeq(s, 1, k - 1)>> \o splitSpace(SubSeq(s, k + 1, Len(s)))

\* Array.prototype.join
RECURSIVE join(_, _)
join(words, sep) ==
    IF Len(words) = 0 THEN ""
    ELSE IF Len(words) = 1 THEN words[1]
    ELSE words[1] \o sep \o join(Tail(words), sep)

\* Array.prototype.slice(0, n)
takeFirst(seq, n) == SubSeq(seq, 1, IF n < Len(seq) THEN n ELSE Len(seq))

(***************************************************************************)
(* The regular expressions of the code.  A pattern is a sequence of        *)
(* tokens: a literal (matched without regard to case, the /i flag), \s*    *)
(* and an optional literal (x?).                                           *)
(***************************************************************************)
Lit(s) == [t |-> "lit", s |-> s]
WsStar == [t |-> "ws", s |-> ""]
Opt(s) == [t |-> "opt", s |-> s]

LitAt(tok, s, i) ==
    /\ i + Len(tok.s) - 1 <= Len(s)
    /\ toLowerCase(SubSeq(s, i, i + Len(tok.s) - 1)) = toLowerCase(tok.s)

\* the tokens k.. of pat match s from position i on
RECURSIVE MatchFrom(_, _, _, _)
MatchFrom(pat, k, s, i) ==
    IF k > Len(pat) THEN TRUE
    ELSE LET tok == pat[k]
         IN CASE tok.t = "lit" ->
                   LitAt(tok, s, i) /\ MatchFrom(pat, k + 1, s, i + Len(tok.s))
              [] tok.t = "ws" ->
                   \E j \in i..(Len(s) + 1) :
                       /\ \A m \in i..(j - 1) : IsSpace(CharAt(s, m))
                       /\ MatchFrom(pat, k + 1, s, j)
              [] tok.t = "opt" ->
                   \/ LitAt(tok, s, i) /\ MatchFrom(pat, k + 1, s, i + Len(tok.s))
                   \/ MatchFrom(pat, k + 1, s, i)

\* RegExp.prototype.test of an unanchored pattern
test(pat, s) == \E i \in 1..(Len(s) + 1) : MatchFrom(pat, 1, s, i)

(***************************************************************************)
(* The transcript classifier of the process-video route.                   *)
(***************************************************************************)
\* a variant of the denylist without the single words: only the amounts and
\* the promotional phrases
PaymentPhrasesWithoutWords == <<
    "$12.95", "$12", "12.95",
    "every dollar equals entries", "dollar equals entries", "dollars equal entries",
    "entry per dollar", "entries per dollar" >>

PAYMENT_PHRASES_PV == <<
    "$12.95", "$12", "12.95",
    "every dollar equals entries", "dollar equals entries", "dollars equal entries",
    "entry per dollar", "entries per dollar",
    "cost", "price", "payment", "pay", "charge", "purchase", "buy",
    "credit card", "debit card" >>

MULTIPLIER_PATTERNS == <<
    [pattern |-> <<Lit("5x"), WsStar, Lit("entr")>>, multiplier |-> "5000"],
    [pattern |-> <<Lit("five"), WsStar, Lit("time"), Opt("s"), WsStar, Lit("entr")>>, multiplier |-> "5000"],
    [pattern |-> <<Lit("quintuple")>>, multiplier |-> "5000"],
    [pattern |-> <<Lit("4x"), WsStar, Lit("entr")>>, multiplier |-> "4000"],
    [pattern |-> <<Lit("four"), WsStar, Lit("time"), Opt("s"), WsStar, Lit("entr")>>, multiplier |-> "4000"],
    [pattern |-> <<Lit("quadruple")>>, multiplier |-> "4000"],
    [pattern |-> <<Lit("3x"), WsStar, Lit("entr")>>, multiplier |-> "3000"],
    [pattern |-> <<Lit("three"), WsStar, Lit("time"), Opt("s"), WsStar, Lit("entr")>>, multiplier |-> "3000"],
    [pattern |-> <<Lit("triple")>>, multiplier |-> "3000"],
    [pattern |-> <<Lit("2x"), WsStar, Lit("entr")>>, multiplier |-> "2000"],
    [pattern |-> <<Lit("two"), WsStar, Lit("time"), Opt("s"), WsStar, Lit("entr")>>, multiplier |-> "2000"],
    [pattern |-> <<Lit("double")>>, multiplier |-> "2000"],
    [pattern |-> <<Lit("end"), WsStar, Lit("of"), WsStar, Lit("sweeps")>>, multiplier |-> "0001"],
    [pattern |-> <<Lit("last"), WsStar, Lit("chance")>>, multiplier |-> "0001"],
    [pattern |-> <<Lit("final"), WsStar, Lit("day"), Opt("s")>>, multiplier |-> "0001"],
    [pattern |-> <<Lit("ending"), WsStar, Lit("soon")>>, multiplier |-> "0001"] >>

\* a variant of detectMultiplier whose loop does not stop at the first match:
\* the last matching rule wins
detectMultiplierLastMatch(t) ==
    LET hits == { k \in 1..Len(MULTIPLIER_PATTERNS) : test(MULTIPLIER_PATTERNS[k].pattern, t) }
    IN IF hits = {} THEN "1000"
       ELSE MULTIPLIER_PATTERNS[CHOOSE k \in hits : \A j \in hits : j <= k].multiplier

\* the for loop of detectMultiplier, from rule k on
RECURSIVE detectFrom(_, _)
detectFrom(k, t) ==
    IF k > Len(MULTIPLIER_PATTERNS) THEN "1000"
    ELSE IF test(MULTIPLIER_PATTERNS[k].pattern, t) THEN MULTIPLIER_PATTERNS[k].multiplier
    ELSE detectFrom(k + 1, t)

detectMultiplier(t) == detectFrom(1, t)

isTTSSafePV(t) ==
    LET lowerTranscript == toLowerCase(t)
    IN ~ \E k \in 1..Len(PAYMENT_PHRASES_PV) :
           includes(lowerTranscript, toLowerCase(PAYMENT_PHRASES_PV[k]))

\* .replace(/[^\w\s]/g, " ")
RECURSIVE replaceNonWord(_)
replaceNonWord(s) ==
    IF Len(s) = 0 THEN ""
    ELSE IF Len(s) = 1 THEN (IF IsWordChar(s) \/ IsSpace(s) THEN s ELSE " ")
    ELSE LET h == Len(s) \div 2
         IN replaceNonWord(SubSeq(s, 1, h)) \o replaceNonWord(SubSeq(s, h + 1, Len(s)))

\* .replace(/\s+/g, " ")
\* what the positions lo..hi of s leave: a run of white space leaves one space,
\* at its first position
RECURSIVE collapseRange(_, _, _)
collapseRange(s, lo, hi) ==
    IF lo > hi THEN ""
    ELSE IF lo = hi
    THEN IF ~IsSpace(CharAt(s, lo)) THEN CharAt(s, lo)
         ELSE IF lo > 1 /\ IsSpace(CharAt(s, lo - 1)) THEN "" ELSE " "
    ELSE LET h == (lo + hi) \div 2
         IN collapseRange(s, lo, h) \o collapseRange(s, h + 1, hi)

collapseSpace(s) == collapseRange(s, 1, Len(s))

cleanTranscript(t) == trim(collapseSpace(replaceNonWord(t)))

\* .replace(/_+$/, "")
RECURSIVE stripTrailingUnderscores(_)
stripTrailingUnderscores(s) ==
    IF s # "" /\ CharAt(s, Len(s)) = "_"
    THEN stripTrailingUnderscores(SubSeq(s, 1, Len(s) - 1))
    ELSE s

extractDescriptionPV(t) ==
    LET cleaned == cleanTranscript(t)
        words == takeFirst(splitSpace(cleaned), 5)
        description == stripTrailingUnderscores(sliceTo(join(words, "_"), 30))
    IN IF description = "" THEN "Ad" ELSE description

(***************************************************************************)
(* The transcript classifier of the transcribe route (two revisions of the *)
(* route, with the same denylist and different stop-word lists).           *)
(***************************************************************************)
PAYMENT_PHRASES == <<
    "12.95", "$12", "twelve ninety-five", "twelve dollars",
    "every dollar equals entries", "dollar equals entries", "dollars equal entries",
    "entry per dollar", "entries per dollar",
    "cost", "price", "payment", "pay ", "charge", "purchase", "buy now",
    "credit card", "debit card" >>

\* a variant of isTTSSafe that compares without lower-casing the transcript
isTTSSafeCaseSensitive(t) ==
    ~ \E k \in 1..Len(PAYMENT_PHRASES) : includes(t, PAYMENT_PHRASES[k])

isTTSSafe(t) ==
    LET lower == toLowerCase(t)
    IN ~ \E k \in 1..Len(PAYMENT_PHRASES) :
           includes(lower, toLowerCase(PAYMENT_PHRASES[k]))

skipWordsApi == {"the", "a", "an", "is", "are", "this", "that", "and", "or", "but",
                 "hey", "hi", "hello", "so", "um", "uh"}

skipWordsLocal == skipWordsApi \cup
                  {"you", "your", "we", "our", "can", "will", "just", "like", "get", "got"}

capitalize(w) == toUpperCase(CharAt(w, 1)) \o toLowerCase(SubSeq(w, 2, Len(w)))

\* a variant of extractDescription that keeps the punctuation of the transcript
describeWithPunctuation(skipWords, t) ==
    LET cleaned == trim(collapseSpace(t))
        words == SelectSeq(splitSpace(cleaned),
                           LAMBDA w : Len(w) > 2 /\ toLowerCase(w) \notin skipWords)
        first == takeFirst(words, 4)
        description == sliceTo(join([i \in 1..Len(first) |-> capitalize(first[i])], ""), 25)
    IN IF description = "" THEN "Ad" ELSE description

\* a variant of extractDescription that takes the first three words
describeWithThreeWords(skipWords, t) ==
    LET cleaned == cleanTranscript(t)
        words == SelectSeq(splitSpace(cleaned),
                           LAMBDA w : Len(w) > 2 /\ toLowerCase(w) \notin skipWords)
        first == takeFirst(words, 3)
        description == sliceTo(join([i \in 1..Len(first) |-> capitalize(first[i])], ""), 25)
    IN IF description = "" THEN "Ad" ELSE description

\* a variant of extractDescription that keeps the stop words
describeWithStopWords(skipWords, t) ==
    LET cleaned == cleanTranscript(t)
        words == SelectSeq(splitSpace(cleaned), LAMBDA w : Len(w) > 2)
        first == takeFirst(words, 4)
        description == sliceTo(join([i \in 1..Len(first) |-> capitalize(first[i])], ""), 25)
    IN IF description = "" THEN "Ad" ELSE description

\* a variant of extractDescription without the length limit
describeWithoutLimit(skipWords, t) ==
    LET cleaned == cleanTranscript(t)
        words == SelectSeq(splitSpace(cleaned),
                           LAMBDA w : Len(w) > 2 /\ toLowerCase(w) \notin skipWords)
        first == takeFirst(words, 4)
        description == join([i \in 1..Len(first) |-> capitalize(first[i])], "")
    IN IF description = "" THEN "Ad" ELSE description

describeWith(skipWords, t) ==
    LET cleaned == cleanTranscript(t)
        words == SelectSeq(splitSpace(cleaned),
                           LAMBDA w : Len(w) > 2 /\ toLowerCase(w) \notin skipWords)
        first == takeFirst(words, 4)
        description == sliceTo(join([i \in 1..Len(first) |-> capitalize(first[i])], ""), 25)
    IN IF description = "" THEN "Ad" ELSE description

extractDescriptionApi(t) == describeWith(skipWordsApi, t)

extractDescriptionLocal(t) == describeWith(skipWordsLocal, t)

(***************************************************************************)
(* Numbers in file names: Number.prototype.toString, padStart and parseInt *)
(* on decimal digits.                                                      *)
(***************************************************************************)
RECURSIVE toString(_)
toString(n) ==
    IF n < 0 THEN "-" \o toString(0 - n)
    ELSE IF n < 10 THEN CharAt(DigitChars, n + 1)
    ELSE toString(n \div 10) \o CharAt(DigitChars, (n % 10) + 1)

RECURSIVE padStart(_, _, _)
padStart(s, width, fill) ==
    IF Len(s) >= width THEN s ELSE padStart(fill \o s, width, fill)

\* parseInt(digits, 10) of a non-empty run of decimal digits
RECURSIVE parseDigits(_)
parseDigits(d) ==
    IF d = "" THEN 0
    ELSE parseDigits(SubSeq(d, 1, Len(d) - 1)) * 10 + (IndexIn(CharAt(d, Len(d)), DigitChars) - 1)

\* the longest run of digits of s that starts at position i
RECURSIVE digitRun(_, _)
digitRun(s, i) ==
    IF i <= Len(s) /\ IsDigit(CharAt(s, i)) THEN CharAt(s, i) \o digitRun(s, i + 1) ELSE ""

(***************************************************************************)
(* The sequence allocator and the name composer of the process-video       *)
(* route.                                                                  *)
(***************************************************************************)
\* name.match(new RegExp(`^${multiplier}(\\d+)`)): the captured digits, "" for no match
matchSequence(multiplier, name) ==
    IF SubSeq(name, 1, Len(multiplier)) = multiplier
    THEN digitRun(name, Len(multiplier) + 1)
    ELSE ""

\* a variant of the loop that compares with > instead of >=
RECURSIVE scanExistingStrict(_, _, _, _)
scanExistingStrict(multiplier, files, k, sequence) ==
    IF k > Len(files) THEN sequence
    ELSE LET match == matchSequence(multiplier, files[k])
             existingSeq == parseDigits(match)
         IN IF match # "" /\ existingSeq > sequence
            THEN scanExistingStrict(multiplier, files, k + 1, existingSeq + 1)
            ELSE scanExistingStrict(multiplier, files, k + 1, sequence)

\* the loop over the listed files, from file k on
RECURSIVE scanExisting(_, _, _, _)
scanExisting(multiplier, files, k, sequence) ==
    IF k > Len(files) THEN sequence
    ELSE LET match == matchSequence(multiplier, files[k])
             existingSeq == parseDigits(match)
         IN IF match # "" /\ existingSeq >= sequence
            THEN scanExisting(multiplier, files, k + 1, existingSeq + 1)
            ELSE scanExisting(multiplier, files, k + 1, sequence)

\* "Get existing files to determine sequence number"; listing.ok is false when
\* drive.files.list throws, and the loop is then skipped
allocateSequence(multiplier, sequenceStart, listing) ==
    LET sequence == IF sequenceStart = 0 THEN 1 ELSE sequenceStart
    IN IF listing.ok THEN scanExisting(multiplier, listing.files, 1, sequence) ELSE sequence

\* a variant of the composer that leaves out the "." after the sequence
composeWithoutSeparator(multiplier, sequence, ttsSafe, creatorCode, description, duration) ==
    LET seqStr == padStart(toString(sequence), 2, "0")
        ttsLabel == IF ttsSafe THEN ".TTS." ELSE ""
    IN multiplier \o seqStr \o ttsLabel \o creatorCode \o "." \o description
         \o "." \o toString(duration) \o "sec.mp4"

\* a variant of the composer that writes the TTS label whatever the safety flag
composeAlwaysLabelled(multiplier, sequence, ttsSafe, creatorCode, description, duration) ==
    LET seqStr == padStart(toString(sequence), 2, "0")
        ttsLabel == ".TTS"
    IN multiplier \o seqStr \o ttsLabel \o "." \o creatorCode \o "." \o description
         \o "." \o toString(duration) \o "sec.mp4"

\* "Format sequence as 2 digits" and "Build filename"
composeSuggestedName(multiplier, sequence, ttsSafe, creatorCode, description, duration) ==
    LET seqStr == padStart(toString(sequence), 2, "0")
        ttsLabel == IF ttsSafe THEN ".TTS" ELSE ""
    IN multiplier \o seqStr \o ttsLabel \o "." \o creatorCode \o "." \o description
         \o "." \o toString(duration) \o "sec.mp4"

(***************************************************************************)
(* The naming settings of the page and its name composer.                  *)
(***************************************************************************)
CREATOR_OPTIONS == <<
    [code |-> "0", initials |-> "CH", label |-> "Chris Hedgecock"],
    [code |-> "0", initials |-> "CC", label |-> "Chris Carter"],
    [code |-> "6", initials |-> "LAZ", label |-> "LAZ"],
    [code |-> "9", initials |-> "LN", label |-> "Lindsay"],
    [code |-> "9", initials |-> "AX", label |-> "Alex"],
    [code |-> "5", initials |-> "", label |-> "Outside Creator (custom initials)"] >>

MULTIPLIER_OPTIONS == <<"5", "4", "3", "2", "1", "0">>

\* the naming settings as the current render of the page holds them; a handler
\* keeps the settings of the render in which it was started
Render ==
    [creatorSelection |-> creatorSelection, customInitials |-> customInitials,
     startingSequence |-> startingSequence]

getInitials(render) ==
    IF render.creatorSelection.code = "5" /\ render.customInitials # ""
    THEN toUpperCase(render.customInitials)
    ELSE render.creatorSelection.initials

generateFileName(render, index, multiplier, isSafe, description, duration) ==
    LET sequence == padStart(toString(render.startingSequence + index), 4, "0")
        initials == getInitials(render)
        ttsLabel == IF isSafe THEN "TTS" ELSE "NTTS"
        desc == IF description = "" THEN "Ad" ELSE description
        dur == duration
    IN multiplier \o render.creatorSelection.code \o sequence \o "." \o ttsLabel \o "."
         \o initials \o "." \o desc \o "." \o toString(dur) \o "sec.mp4"

\* what is typed into the Custom Initials field
TypedInitials == {"", "jd", "a/b"}

\* onChange of the Custom Initials field: what the field stores for a typed value
typedInitials(value) == sliceTo(toUpperCase(value), 3)

\* the state of the settings after the page is constructed
ConfigInitial ==
    /\ creatorSelection = CREATOR_OPTIONS[1]
    /\ customInitials = ""
    /\ startingSequence = 1

(***************************************************************************)
(* The rename route.  rn.attempts logs the calls of drive.files.update, in *)
(* the order they are made; an empty rn.response.errors stands for the     *)
(* errors field the response leaves out when no rename failed.             *)
(***************************************************************************)
\* a request as the route receives it
renameRequest(session, accessToken, body, renames) ==
    [phase |-> "received", session |-> session, accessToken |-> accessToken,
     body |-> body, renames |-> renames, pos |-> 0, renamed |-> 0,
     errors |-> <<>>, attempts |-> <<>>,
     response |-> [status |-> 0, success |-> FALSE, renamed |-> 0, errors |-> <<>>, error |-> ""]]

errorResponse(status, error) ==
    [status |-> status, success |-> FALSE, renamed |-> 0, errors |-> <<>>, error |-> error]

\* the checks before the loop: session, request body (unreadable when
\* request.json() throws, invalid when it holds no array of renames), access token
renameReceive ==
    /\ rn.phase = "received"
    /\ rn' = IF ~rn.session
             THEN [rn EXCEPT !.phase = "done", !.response = errorResponse(401, "Unauthorized")]
             ELSE IF rn.body = "unreadable"
             THEN [rn EXCEPT !.phase = "done",
                             !.response = errorResponse(500, "Failed to rename files")]
             ELSE IF rn.body = "invalid"
             THEN [rn EXCEPT !.phase = "done", !.response = errorResponse(400, "Invalid request")]
             ELSE IF ~rn.accessToken
             THEN [rn EXCEPT !.phase = "done", !.response = errorResponse(401, "No access token")]
             ELSE [rn EXCEPT !.phase = "running", !.pos = 1]
    /\ UNCHANGED drive

\* a variant of the loop body that gives up the batch at the first failure
afterAttemptAbort(r, pair, ok) ==
    IF ok
    THEN [r EXCEPT !.renamed = @ + 1, !.pos = @ + 1,
                   !.attempts = Append(@, [fileId |-> pair.fileId, newName |-> pair.newName, ok |-> TRUE])]
    ELSE [r EXCEPT !.errors = Append(@, pair.fileId), !.pos = Len(r.renames) + 1,
                   !.attempts = Append(@, [fileId |-> pair.fileId, newName |-> pair.newName, ok |-> FALSE])]

\* the body of the loop for one pair: count the success or push the failed id
afterAttempt(r, pair, ok) ==
    IF ok
    THEN [r EXCEPT !.renamed = @ + 1, !.pos = @ + 1,
                   !.attempts = Append(@, [fileId |-> pair.fileId, newName |-> pair.newName, ok |-> TRUE])]
    ELSE [r EXCEPT !.errors = Append(@, pair.fileId), !.pos = @ + 1,
                   !.attempts = Append(@, [fileId |-> pair.fileId, newName |-> pair.newName, ok |-> FALSE])]

\* one turn of the loop: drive.files.update succeeds or throws (it throws for a
\* file the storage provider does not hold)
renameStep ==
    /\ rn.phase = "running"
    /\ rn.pos <= Len(rn.renames)
    /\ LET pair == rn.renames[rn.pos]
       IN \E ok \in BOOLEAN :
           /\ ok => pair.fileId \in DOMAIN drive
           /\ rn' = afterAttempt(rn, pair, ok)
           /\ drive' = IF ok THEN [drive EXCEPT ![pair.fileId] = pair.newName] ELSE drive

\* the answer after the loop
renameRespond ==
    /\ rn.phase = "running"
    /\ rn.pos > Len(rn.renames)
    /\ rn' = [rn EXCEPT !.phase = "done",
                        !.response = [status |-> 200, success |-> TRUE, renamed |-> rn.renamed,
                                      errors |-> rn.errors, error |-> ""]]
    /\ UNCHANGED drive

(***************************************************************************)
(* The values of the parts of the state that a specification leaves       *)
(* unused.                                                                 *)
(***************************************************************************)
NoClassification == [route |-> "none", multiplier |-> "", isTTSSafe |-> TRUE, description |-> ""]

ClassifyIdle == transcript = "" /\ cls = NoClassification

NoNaming == [target |-> "none", done |-> FALSE, multiplier |-> "", existing |-> <<>>,
             listingOk |-> TRUE, sequenceStart |-> 0, index |-> 0, isSafe |-> TRUE,
             description |-> "", duration |-> 0, creatorCode |-> "",
             sequence |-> 0, name |-> ""]

NamingIdle == naming = NoNaming

NoResponse == [status |-> 0, success |-> FALSE, renamed |-> 0, errors |-> <<>>, error |-> ""]

NoRename == [phase |-> "idle", session |-> TRUE, accessToken |-> TRUE, body |-> "renames",
             renames |-> <<>>, pos |-> 0, renamed |-> 0, errors |-> <<>>,
             attempts |-> <<>>, response |-> NoResponse]

RenameIdle == rn = NoRename /\ drive = <<>>

(***************************************************************************)
(* JSON objects and lists as the handlers use them.  A field that an       *)
(* object leaves out is absent from the record.                            *)
(***************************************************************************)
has(o, f) == f \in DOMAIN o

\* { ...a, ...b }
spread(a, b) == [f \in DOMAIN a \cup DOMAIN b |-> IF f \in DOMAIN b THEN b[f] ELSE a[f]]

\* o.f || fallback, for a string field
orElse(o, f, fallback) == IF has(o, f) /\ o[f] # "" THEN o[f] ELSE fallback

\* v.error as a condition
hasError(v) == has(v, "error") /\ v.error # ""

\* the body of a response that carries only an error message
errorBody(status, error) == [status |-> status, body |-> [error |-> error]]

(***************************************************************************)
(* The storage provider: one folder of video files, listed by name.        *)
(***************************************************************************)
DriveFolder == "1AbC_d-9"

FileIds == <<"f1", "f2", "f3", "f4">>

\* a second folder of the storage provider, and the files it holds when there
\* are any
OtherFolder == "ABC123"

OtherFileIds == {"g1", "g2"}

\* 'folderId' in parents
parentOf(fileId) == IF fileId \in OtherFileIds THEN OtherFolder ELSE DriveFolder

\* the characters of the names of the model, in the order of their codes
AsciiOrder == " $-.0123456789ABCDEFGHIJKLMNOPQRSTUVWXYZ_abcdefghijklmnopqrstuvwxyz"

RECURSIVE lexLess(_, _)
lexLess(a, b) ==
    IF b = "" THEN FALSE
    ELSE IF a = "" THEN TRUE
    ELSE LET x == IndexIn(CharAt(a, 1), AsciiOrder)
             y == IndexIn(CharAt(b, 1), AsciiOrder)
         IN IF x # y THEN x < y
            ELSE lexLess(SubSeq(a, 2, Len(a)), SubSeq(b, 2, Len(b)))

\* orderBy: "name"; files of the same name are listed in the order of their ids
listedBefore(d, f, g) == lexLess(d[f], d[g]) \/ (d[f] = d[g] /\ lexLess(f, g))

RECURSIVE sortByName(_, _)
sortByName(d, ids) ==
    IF ids = {} THEN <<>>
    ELSE LET first == CHOOSE f \in ids : \A g \in ids \ {f} : listedBefore(d, f, g)
         IN <<first>> \o sortByName(d, ids \ {first})

\* the ids of the files of a folder, in the order of a listing
filesOf(d, folderId) == sortByName(d, { f \in DOMAIN d : parentOf(f) = folderId })

\* videoMediaMetadata.durationMillis of a file, 0 for a file without metadata
durationMillis(fileId) == IF fileId = "f1" THEN 14600 ELSE 0

\* Math.round(parseInt(durationMillis) / 1000), or 0
metadataDuration(fileId) ==
    IF durationMillis(fileId) # 0 THEN (durationMillis(fileId) + 500) \div 1000 ELSE 0

(***************************************************************************)
(* The video-listing route.  env is what the request meets: whether it     *)
(* reaches the route (network), the session, the access token, and         *)
(* whether the storage provider answers the listing.                       *)
(***************************************************************************)
videosGET(folderId, env, d) ==
    IF ~env.session THEN errorBody(401, "Unauthorized")
    ELSE IF folderId = "" THEN errorBody(400, "Folder ID required")
    ELSE IF ~env.accessToken THEN errorBody(401, "No access token")
    ELSE IF ~env.listing THEN errorBody(500, "Failed to fetch videos")
    ELSE LET ids == filesOf(d, folderId)
         IN [status |-> 200,
             body |-> [videos |-> [k \in 1..Len(ids) |->
                          [id |-> ids[k], name |-> d[ids[k]], mimeType |-> "video/mp4",
                           duration |-> metadataDuration(ids[k])]]]]

ListEnvs ==
    { [network |-> TRUE, session |-> TRUE, accessToken |-> TRUE, listing |-> TRUE],
      [network |-> TRUE, session |-> FALSE, accessToken |-> FALSE, listing |-> TRUE],
      [network |-> TRUE, session |-> TRUE, accessToken |-> FALSE, listing |-> TRUE],
      [network |-> TRUE, session |-> TRUE, accessToken |-> TRUE, listing |-> FALSE],
      [network |-> FALSE, session |-> TRUE, accessToken |-> TRUE, listing |-> TRUE] }

(***************************************************************************)
(* The process-video route.  env adds whether the session lookup of the    *)
(* route answers (tokenFetch), whether the download succeeds, the duration *)
(* ffprobe reports, and the outcome of audio extraction and speech-to-text *)
(* (speech).                                                               *)
(***************************************************************************)
\* the transcripts the speech-to-text service returns in the model
BatchTranscripts == {"Get triple entries now", "Only $12.95 gets you double entries"}

\* "Analyze transcript"
analyzeTranscript(t) ==
    [multiplier |-> detectMultiplier(t), isTTSSafe |-> isTTSSafePV(t),
     description |-> extractDescriptionPV(t)]

\* the analysis of every transcript of the model, computed once
AnalysisPV == [t \in BatchTranscripts \cup {""} |-> analyzeTranscript(t)]

processVideoPOST(req, env, d) ==
    IF ~env.session THEN errorBody(401, "Unauthorized")
    ELSE IF ~env.tokenFetch THEN errorBody(500, "Failed to process video")
    ELSE IF ~env.accessToken THEN errorBody(401, "No access token")
    ELSE IF ~env.download THEN errorBody(500, "Failed to download video")
    ELSE LET duration == env.duration
             text == IF env.speech.ok THEN env.speech.text ELSE ""
             multiplier == AnalysisPV[text].multiplier
             ttsSafe == AnalysisPV[text].isTTSSafe
             description == AnalysisPV[text].description
             ids == filesOf(d, req.folderId)
             sequence == allocateSequence(multiplier, req.sequenceStart,
                             [ok |-> env.listing, files |-> [k \in 1..Len(ids) |-> d[ids[k]]]])
         IN [status |-> 200,
             body |-> [suggestedName |-> composeSuggestedName(multiplier, sequence, ttsSafe,
                                             req.creatorCode, description, duration),
                       duration |-> duration, transcript |-> text, multiplier |-> multiplier,
                       isTTSSafe |-> ttsSafe, description |-> description]]

ProcessServed ==
    [network |-> TRUE, session |-> TRUE, tokenFetch |-> TRUE, accessToken |-> TRUE,
     download |-> TRUE, duration |-> 15, speech |-> [ok |-> TRUE, text |-> ""],
     listing |-> TRUE]

ProcessEnvs ==
    { [ProcessServed EXCEPT !.speech.text = t] : t \in BatchTranscripts }
    \cup { [ProcessServed EXCEPT !.speech.ok = FALSE],
           [ProcessServed EXCEPT !.speech.text = "Get triple entries now", !.listing = FALSE],
           [ProcessServed EXCEPT !.download = FALSE],
           [ProcessServed EXCEPT !.accessToken = FALSE],
           [ProcessServed EXCEPT !.tokenFetch = FALSE],
           [ProcessServed EXCEPT !.session = FALSE],
           [ProcessServed EXCEPT !.network = FALSE] }

\* how a process request ended
processOutcome(env) ==
    IF ~env.network THEN "throws"
    ELSE IF ~env.session \/ (env.tokenFetch /\ ~env.accessToken) THEN "refused"
    ELSE IF ~env.tokenFetch THEN "routeFailed"
    ELSE IF ~env.download THEN "downloadFailed"
    ELSE IF ~env.speech.ok THEN "speechFailed"
    ELSE "classified"

(***************************************************************************)
(* The transcribe route, in its two revisions.  env.failure names the step *)
(* that throws, if any: the session lookup, the download, the audio        *)
(* extraction (local revision) or the transcription; env.message is the    *)
(* message of an error thrown by the storage provider.                     *)
(***************************************************************************)
\* the transcripts the speech-to-text service returns in the model
PageTranscripts == {"Get triple entries now ", "Only $12.95 gets you double entries"}

\* the answer of a revision of the route for a transcript
transcribed(revision, text) ==
    IF revision = "api"
    THEN [transcript |-> text, isTTSSafe |-> isTTSSafe(text),
          description |-> extractDescriptionApi(text)]
    ELSE [transcript |-> trim(text), isTTSSafe |-> isTTSSafe(text),
          description |-> extractDescriptionLocal(text)]

\* the answers for every transcript of the model, computed once
AnalysisT ==
    [revision \in {"api", "local"} |-> [t \in PageTranscripts |-> transcribed(revision, t)]]

transcribePOST(req, env) ==
    IF env.revision = "api"
    THEN IF ~env.session THEN errorBody(401, "Unauthorized")
         ELSE IF env.failure = "tokenFetch"
         THEN [status |-> 500, body |-> [error |-> "Transcription failed",
                                        isTTSSafe |-> TRUE, description |-> "Ad"]]
         ELSE IF ~env.accessToken THEN errorBody(401, "No access token")
         ELSE IF env.failure = "download"
         THEN [status |-> 500, body |-> [error |-> "Transcription failed",
                                        isTTSSafe |-> TRUE, description |-> "Ad"]]
         ELSE IF env.tooLarge
         THEN [status |-> 200, body |-> [error |-> "Video too large for transcription (>25MB)",
                                        isTTSSafe |-> TRUE, description |-> "Ad"]]
         ELSE IF env.failure # "none"
         THEN [status |-> 500, body |-> [error |-> "Transcription failed",
                                        isTTSSafe |-> TRUE, description |-> "Ad"]]
         ELSE [status |-> 200, body |-> AnalysisT["api"][env.text]]
    ELSE IF ~env.session THEN errorBody(401, "Unauthorized - no session")
         ELSE IF env.failure = "tokenFetch"
         THEN [status |-> 500, body |-> [error |-> "Transcription failed: " \o env.message,
                                        isTTSSafe |-> TRUE, description |-> "Ad"]]
         ELSE IF ~env.accessToken
         THEN errorBody(401, "No access token - please sign out and sign in again")
         ELSE IF env.failure # "none"
         THEN LET errorMessage ==
                      IF env.failure = "audio" THEN "Failed to extract audio from video"
                      ELSE IF env.failure = "speech" THEN "Whisper transcription failed"
                      ELSE env.message
              IN [status |-> 500, body |-> [error |-> "Transcription failed: " \o errorMessage,
                                           isTTSSafe |-> TRUE, description |-> "Ad"]]
         ELSE [status |-> 200, body |-> AnalysisT["local"][env.text]]

TranscribeServed(revision) ==
    [network |-> TRUE, revision |-> revision, session |-> TRUE, accessToken |-> TRUE,
     failure |-> "none", tooLarge |-> FALSE, text |-> "Get triple entries now ",
     message |-> "fetch failed"]

TranscribeEnvs ==
    UNION { { [TranscribeServed(r) EXCEPT !.text = t] : t \in PageTranscripts }
            \cup { [TranscribeServed(r) EXCEPT !.failure = f] :
                       f \in {"tokenFetch", "download", "speech"} }
            \cup { [TranscribeServed(r) EXCEPT !.session = FALSE],
                   [TranscribeServed(r) EXCEPT !.accessToken = FALSE],
                   [TranscribeServed(r) EXCEPT !.network = FALSE] }
            : r \in {"api", "local"} }
    \cup { [TranscribeServed("api") EXCEPT !.tooLarge = TRUE],
           [TranscribeServed("local") EXCEPT !.failure = "audio"] }

\* how a transcribe request ended
transcribeOutcome(env, res) ==
    IF ~env.network THEN "throws"
    ELSE IF res.status = 401 THEN "refused"
    ELSE IF has(res.body, "error") THEN "errorResponse"
    ELSE "transcribed"

\* what is recorded for a file: how its last request ended, whether a
\* request for it has failed since the file was listed, and whether its
\* suggested name is a manual edit ("manual"), a composed name that replaced a
\* manual edit ("replaced"), or neither ("none")
NoOutcome == [last |-> "none", failed |-> FALSE, edit |-> "none"]

ProcessFailures == {"throws", "refused", "routeFailed", "downloadFailed", "speechFailed"}

TranscribeFailures == {"throws", "refused", "errorResponse"}

recordOutcome(o, fileId, kind, failures) ==
    IF fileId \in DOMAIN o
    THEN [o EXCEPT ![fileId].last = kind, ![fileId].failed = @ \/ kind \in failures]
    ELSE o

\* the suggested name of a file has been typed by the user
noteManualEdit(o, fileId) ==
    IF fileId \in DOMAIN o THEN [o EXCEPT ![fileId].edit = "manual"] ELSE o

\* the suggested names of the files ids have been composed anew
noteRegenerated(o, ids) ==
    [f \in DOMAIN o |-> IF f \in ids /\ o[f].edit = "manual"
                        THEN [o[f] EXCEPT !.edit = "replaced"] ELSE o[f]]

(***************************************************************************)
(* renameAll of both revisions of the page: the batch it sends.            *)
(***************************************************************************)
renamesOf(videos) ==
    LET kept == SelectSeq(videos, LAMBDA v : v.suggestedName # "" /\ ~hasError(v))
    IN [k \in 1..Len(kept) |-> [fileId |-> kept[k].id, newName |-> kept[k].suggestedName]]

\* prev.map((v) => ({ ...v, name: v.suggestedName || v.name }))
showSuggestedNames(videos) ==
    [k \in 1..Len(videos) |->
        [videos[k] EXCEPT !.name = IF videos[k].suggestedName # ""
                                   THEN videos[k].suggestedName ELSE @]]

RenameAuth == {<<FALSE, FALSE>>, <<TRUE, FALSE>>, <<TRUE, TRUE>>}

(***************************************************************************)
(* The earlier revision of the page: it lets the process-video route name  *)
(* every video of the selected folder.  legacy.run is the Process Videos   *)
(* run in flight, with the values of the render in which it was started.   *)
(***************************************************************************)
CREATOR_CODES == <<"0", "6", "9", "5">>

NoRun == [pc |-> "idle", i |-> 0, initialVideos |-> <<>>, creatorCode |-> "", folderId |-> ""]

\* the state cells after the page is constructed; selectedFolder "" stands for null
LegacyInitial ==
    [selectedFolder |-> "", creatorCode |-> "0", videos |-> <<>>, processing |-> FALSE,
     renaming |-> FALSE, run |-> NoRun]

\* the number of times a run (Process or Load Videos, Transcribe All, Rename
\* All) is started in a session
MaxRuns == 1

\* the number of times the folder or the earlier page's creator code is changed
\* in a session
MaxChanges == 2

\* the number of times the settings and the controls of the list entries of
\* the page (Edit, the name, a field, Regenerate Names) are used in a session,
\* all together
MaxEdits == 3

EditControls == {"setting", "toggle", "name", "field", "regenerate"}

NoClicks ==
    [folder |-> 0, creator |-> 0, process |-> 0, transcribe |-> 0, rename |-> 0,
     setting |-> 0, toggle |-> 0, name |-> 0, field |-> 0, regenerate |-> 0]

\* one more use of a control, as long as its uses are not spent
click(control) ==
    /\ IF control \in EditControls
       THEN clicks.setting + clicks.toggle + clicks.name + clicks.field + clicks.regenerate
                < MaxEdits
       ELSE clicks[control] < (IF control \in {"folder", "creator"} THEN MaxChanges ELSE MaxRuns)
    /\ clicks' = [clicks EXCEPT ![control] = @ + 1]

selectFolder ==
    /\ click("folder")
    /\ legacy' = [legacy EXCEPT !.selectedFolder = DriveFolder, !.videos = <<>>]
    /\ UNCHANGED <<drive, rn, outcome>>

setCreatorCode ==
    /\ click("creator")
    /\ \E k \in 1..Len(CREATOR_CODES) : legacy' = [legacy EXCEPT !.creatorCode = CREATOR_CODES[k]]
    /\ UNCHANGED <<drive, rn, outcome>>

\* "Initialize videos with processing state"
initialVideoLegacy(v) ==
    [id |-> v.id, name |-> v.name, mimeType |-> v.mimeType, suggestedName |-> "",
     duration |-> 0, transcript |-> "", multiplier |-> "1000", isTTSSafe |-> TRUE,
     description |-> "", isEditing |-> FALSE, processing |-> TRUE]

\* the click on Process Videos: the listing request is sent
legacyProcessVideos ==
    /\ legacy.selectedFolder # ""
    /\ ~legacy.processing
    /\ click("process")
    /\ legacy' = [legacy EXCEPT !.processing = TRUE,
                                !.run = [NoRun EXCEPT !.pc = "listing",
                                                      !.creatorCode = legacy.creatorCode,
                                                      !.folderId = legacy.selectedFolder]]
    /\ UNCHANGED <<drive, rn, outcome>>

\* the listing answers (or the request throws): the list is set and the loop
\* sends the request for the first video
legacyListed ==
    /\ legacy.run.pc = "listing"
    /\ \E env \in ListEnvs :
        LET res == videosGET(legacy.run.folderId, env, drive)
            listed == env.network /\ has(res.body, "videos")
            initialVideos == IF listed
                             THEN [k \in 1..Len(res.body.videos) |->
                                      initialVideoLegacy(res.body.videos[k])]
                             ELSE <<>>
        IN /\ legacy' = IF initialVideos # <<>>
                        THEN [legacy EXCEPT !.videos = initialVideos, !.run.pc = "items",
                                            !.run.initialVideos = initialVideos]
                        ELSE [legacy EXCEPT !.videos = IF listed THEN <<>> ELSE @,
                                            !.processing = FALSE, !.run = NoRun]
           /\ outcome' = IF listed THEN [f \in DOMAIN drive |-> NoOutcome] ELSE outcome
    /\ UNCHANGED <<clicks, drive, rn>>

\* the process-video route answers for video i (or the request throws); the
\* loop goes on to the next video or ends the run
legacyProcessed ==
    /\ legacy.run.pc = "items"
    /\ \E env \in ProcessEnvs :
        LET i == legacy.run.i
            video == legacy.run.initialVideos[i + 1]
            req == [fileId |-> video.id, fileName |-> video.name,
                    creatorCode |-> legacy.run.creatorCode,
                    folderId |-> legacy.run.folderId, sequenceStart |-> i + 1]
            processData == processVideoPOST(req, env, drive).body
            change(v) == IF env.network
                         THEN spread(spread(v, processData), [processing |-> FALSE])
                         ELSE spread(v, [processing |-> FALSE, error |-> "Failed to process"])
            videos == [idx \in 1..Len(legacy.videos) |->
                          IF idx = i + 1 THEN change(legacy.videos[idx]) ELSE legacy.videos[idx]]
        IN /\ legacy' = IF i + 1 < Len(legacy.run.initialVideos)
                        THEN [legacy EXCEPT !.videos = videos, !.run.i = i + 1]
                        ELSE [legacy EXCEPT !.videos = videos, !.processing = FALSE,
                                            !.run = NoRun]
           /\ outcome' = recordOutcome(outcome, video.id, processOutcome(env), ProcessFailures)
    /\ UNCHANGED <<clicks, drive, rn>>

\* the click on Rename All Files: the batch is sent to the rename route
legacyRenameAll ==
    /\ Len(legacy.videos) > 0
    /\ ~legacy.renaming
    /\ \E k \in 1..Len(legacy.videos) :
           ~(legacy.videos[k].processing \/ hasError(legacy.videos[k]))
    /\ rn.phase = "idle"
    /\ click("rename")
    /\ \E auth \in RenameAuth :
           rn' = renameRequest(auth[1], auth[2], "renames", renamesOf(legacy.videos))
    /\ legacy' = [legacy EXCEPT !.renaming = TRUE]
    /\ UNCHANGED <<drive, outcome>>

\* the rename route has answered; the answer arrives or the request throws
legacyRenameAnswered ==
    /\ legacy.renaming
    /\ rn.phase = "done"
    /\ \E network \in BOOLEAN :
           legacy' = [legacy EXCEPT !.renaming = FALSE,
                                    !.videos = IF network /\ rn.response.success
                                               THEN showSuggestedNames(@) ELSE @]
    /\ rn' = NoRename
    /\ UNCHANGED <<clicks, drive, outcome>>

(***************************************************************************)
(* The page.  load and tr are the Load Videos and the Transcribe All run   *)
(* in flight, each with the values of the render in which it was started.  *)
(***************************************************************************)
IsIdChar(c) == IsUpper(c) \/ IsLower(c) \/ IsDigit(c) \/ c \in {"_", "-"}

\* the longest run of [a-zA-Z0-9_-] from position i on
RECURSIVE idRun(_, _)
idRun(s, i) ==
    IF i <= Len(s) /\ IsIdChar(CharAt(s, i)) THEN CharAt(s, i) \o idRun(s, i + 1) ELSE ""

\* a variant of extractFolderId that returns an id given as such without
\* trimming it
extractFolderIdUntrimmed(url) ==
    LET marker == "/folders/"
        hits == { p \in 1..(Len(url) - Len(marker)) :
                      /\ SubSeq(url, p, p + Len(marker) - 1) = marker
                      /\ idRun(url, p + Len(marker)) # "" }
        trimmed == trim(url)
    IN IF hits # {}
       THEN idRun(url, (CHOOSE p \in hits : \A q \in hits : p <= q) + Len(marker))
       ELSE IF trimmed # "" /\ \A i \in 1..Len(trimmed) : IsIdChar(CharAt(trimmed, i))
       THEN url
       ELSE ""

\* the result null is written ""
extractFolderId(url) ==
    LET marker == "/folders/"
        hits == { p \in 1..(Len(url) - Len(marker)) :
                      /\ SubSeq(url, p, p + Len(marker) - 1) = marker
                      /\ idRun(url, p + Len(marker)) # "" }
        trimmed == trim(url)
    IN IF hits # {}
       THEN idRun(url, (CHOOSE p \in hits : \A q \in hits : p <= q) + Len(marker))
       ELSE IF trimmed # "" /\ \A i \in 1..Len(trimmed) : IsIdChar(CharAt(trimmed, i))
       THEN trimmed
       ELSE ""

\* the state cells after the page is constructed; folderId "" stands for null,
\* and alert is the text of the last alert the page has shown
PageInitial ==
    [folderUrl |-> "", folderId |-> "", urlError |-> "", defaultMultiplier |-> "1",
     videos |-> <<>>, processing |-> FALSE, renaming |-> FALSE, transcribing |-> FALSE,
     alert |-> ""]

\* status is the status of the answer that ended the last Load Videos run, 0
\* when no run has ended or its request threw
NoLoad ==
    [pc |-> "idle", folderId |-> "", defaultMultiplier |-> "", render |-> <<>>, status |-> 0]

NoTranscribe == [pc |-> "idle", i |-> 0, videos |-> <<>>, render |-> <<>>]

FolderUrls ==
    {"", "https://drive.google.com/drive/folders/" \o DriveFolder \o "?usp=sharing",
     "my videos"}

\* a variant of the handler that leaves folderId as it was when the text
\* cannot be resolved
folderUrlChangedKeepingId(p, url) ==
    LET id == extractFolderId(url)
    IN [p EXCEPT !.folderUrl = url,
                 !.urlError = IF url # "" /\ id = ""
                              THEN "Invalid Google Drive folder URL" ELSE "",
                 !.folderId = IF url # "" /\ id = "" THEN @ ELSE id,
                 !.videos = <<>>]

\* the state cells after handleFolderUrlChange(url)
folderUrlChanged(p, url) ==
    LET id == extractFolderId(url)
    IN [p EXCEPT !.folderUrl = url,
                 !.urlError = IF url # "" /\ id = ""
                              THEN "Invalid Google Drive folder URL" ELSE "",
                 !.folderId = id,
                 !.videos = <<>>]

\* the folder field is changed to one of the texts urls
handleFolderUrlChangeTo(urls) ==
    /\ click("folder")
    /\ \E url \in urls : page' = folderUrlChanged(page, url)
    /\ UNCHANGED <<load, tr, drive, rn, outcome>>

handleFolderUrlChange == handleFolderUrlChangeTo(FolderUrls)

\* "Create initial video list with duration from Drive metadata"
initialVideo(v, idx, render, defaultMultiplier) ==
    [id |-> v.id, name |-> v.name, mimeType |-> v.mimeType,
     suggestedName |-> generateFileName(render, idx, defaultMultiplier, TRUE, "Ad", v.duration),
     duration |-> v.duration, transcript |-> "", multiplier |-> defaultMultiplier,
     isTTSSafe |-> TRUE, description |-> "Ad", isEditing |-> FALSE, processing |-> FALSE]

\* the click on Load Videos: the listing request is sent, unless the initials
\* are empty
processVideos ==
    /\ page.folderId # ""
    /\ ~page.processing
    /\ click("process")
    /\ IF getInitials(Render) = ""
       THEN /\ page' = [page EXCEPT !.alert = "Please enter creator initials"]
            /\ load' = load
       ELSE /\ page' = [page EXCEPT !.processing = TRUE]
            /\ load' = [NoLoad EXCEPT !.pc = "listing", !.folderId = page.folderId,
                                      !.defaultMultiplier = page.defaultMultiplier,
                                      !.render = Render]
    /\ UNCHANGED <<tr, drive, rn, outcome>>

\* the listing answers, or the request throws
videosListed ==
    /\ load.pc = "listing"
    /\ \E env \in ListEnvs :
        LET res == videosGET(load.folderId, env, drive)
            listed == env.network /\ has(res.body, "videos")
        IN /\ page' = [page EXCEPT
                          !.processing = FALSE,
                          !.videos = IF listed
                                     THEN [k \in 1..Len(res.body.videos) |->
                                              initialVideo(res.body.videos[k], k - 1, load.render,
                                                           load.defaultMultiplier)]
                                     ELSE @]
           /\ outcome' = IF listed THEN [f \in DOMAIN drive |-> NoOutcome] ELSE outcome
           /\ load' = [NoLoad EXCEPT !.status = IF env.network THEN res.status ELSE 0]
    /\ UNCHANGED <<clicks, tr, drive, rn>>

\* a marking that reaches every entry of the list, not only video i
markEveryProcessing(videos, i) ==
    [idx \in 1..Len(videos) |-> spread(videos[idx], [processing |-> TRUE])]

\* "Mark as processing"
markProcessing(videos, i) ==
    [idx \in 1..Len(videos) |->
        IF idx = i + 1 THEN spread(videos[idx], [processing |-> TRUE]) ELSE videos[idx]]

\* the click on Transcribe All: the first video is marked and its request sent
transcribeAll ==
    /\ Len(page.videos) > 0
    /\ ~page.transcribing
    /\ click("transcribe")
    /\ tr' = [pc |-> "waiting", i |-> 0, videos |-> page.videos, render |-> Render]
    /\ page' = [page EXCEPT !.transcribing = TRUE, !.videos = markProcessing(@, 0)]
    /\ UNCHANGED <<load, drive, rn, outcome>>

\* the update of the list entry when the answer has arrived
applyTranscription(v, idx, data, render) ==
    LET updated == spread(v, [processing |-> FALSE,
                              transcript |-> orElse(data, "transcript", ""),
                              isTTSSafe |-> IF has(data, "isTTSSafe") THEN data.isTTSSafe ELSE TRUE,
                              description |-> orElse(data, "description", "Ad")])
    IN [updated EXCEPT !.suggestedName =
            generateFileName(render, idx, updated.multiplier, updated.isTTSSafe,
                             updated.description, updated.duration)]

\* the transcribe route answers for video i (or the request throws); the loop
\* goes on to the next video or ends the run
transcribeAnsweredIn(envs) ==
    /\ tr.pc = "waiting"
    /\ \E env \in envs :
        LET i == tr.i
            video == tr.videos[i + 1]
            res == transcribePOST([fileId |-> video.id, fileName |-> video.name], env)
            change(v) == IF env.network
                         THEN applyTranscription(v, i, res.body, tr.render)
                         ELSE spread(v, [processing |-> FALSE, error |-> "Transcription failed"])
            videos == [idx \in 1..Len(page.videos) |->
                          IF idx = i + 1 THEN change(page.videos[idx]) ELSE page.videos[idx]]
        IN /\ IF i + 1 < Len(tr.videos)
              THEN /\ page' = [page EXCEPT !.videos = markProcessing(videos, i + 1)]
                   /\ tr' = [tr EXCEPT !.i = i + 1]
              ELSE /\ page' = [page EXCEPT !.videos = videos, !.transcribing = FALSE]
                   /\ tr' = NoTranscribe
           /\ outcome' = noteRegenerated(
                              recordOutcome(outcome, video.id, transcribeOutcome(env, res),
                                            TranscribeFailures),
                              IF env.network /\ i + 1 <= Len(page.videos)
                              THEN {page.videos[i + 1].id} ELSE {})
    /\ UNCHANGED <<clicks, load, drive, rn>>

\* parseInt(value) || fallback, for the text of a number field
parseIntOr(value, fallback) ==
    LET negative == value # "" /\ Head(value) = "-"
        digits == digitRun(value, IF negative THEN 2 ELSE 1)
        n == IF negative THEN 0 - parseDigits(digits) ELSE parseDigits(digits)
    IN IF digits = "" \/ n = 0 THEN fallback ELSE n

\* .replace(/[^a-zA-Z0-9]/g, "")
RECURSIVE stripNonAlphanumeric(_)
stripNonAlphanumeric(s) ==
    IF s = "" THEN ""
    ELSE (IF IsUpper(Head(s)) \/ IsLower(Head(s)) \/ IsDigit(Head(s)) THEN Head(s) ELSE "")
             \o stripNonAlphanumeric(Tail(s))

\* what is typed into the fields of the page
TypedSequences == {"", "0", "abc", "2", "-3"}

TypedDescriptions == {"", "Big win!"}

TypedDurations == {"30"}

TypedNames == {"final cut.mp4"}

\* the entries chosen in the Creator and the Default Multiplier lists
ChosenCreators == {2, 5}

ChosenMultipliers == {MULTIPLIER_OPTIONS[3]}

handleCreatorChange ==
    /\ click("setting")
    /\ \E index \in ChosenCreators :
        /\ creatorSelection' = CREATOR_OPTIONS[index + 1]
        /\ customInitials' = IF CREATOR_OPTIONS[index + 1].code # "5" THEN "" ELSE customInitials
    /\ UNCHANGED <<startingSequence, page, load, tr, drive, rn, outcome>>

\* the Custom Initials field, shown for creator code 5
setCustomInitials ==
    /\ creatorSelection.code = "5"
    /\ click("setting")
    /\ \E value \in TypedInitials : customInitials' = typedInitials(value)
    /\ UNCHANGED <<creatorSelection, startingSequence, page, load, tr, drive, rn, outcome>>

\* the Starting Sequence # field
setStartingSequence ==
    /\ click("setting")
    /\ \E value \in TypedSequences : startingSequence' = parseIntOr(value, 1)
    /\ UNCHANGED <<creatorSelection, customInitials, page, load, tr, drive, rn, outcome>>

\* the Default Multiplier field
setDefaultMultiplier ==
    /\ click("setting")
    /\ \E value \in ChosenMultipliers : page' = [page EXCEPT !.defaultMultiplier = value]
    /\ UNCHANGED <<configVars, load, tr, drive, rn, outcome>>

\* a variant of updateVideo that keeps the suggested name
updatedVideoKeepingName(v, i, updates, render) == spread(v, updates)

\* updateVideo for the entry v at index i (counted from 0)
updatedVideo(v, i, updates, render) ==
    LET updated == spread(v, updates)
    IN IF \E f \in {"multiplier", "isTTSSafe", "description", "duration"} : has(updates, f)
       THEN [updated EXCEPT !.suggestedName =
                generateFileName(render, i, updated.multiplier, updated.isTTSSafe,
                                 updated.description, updated.duration)]
       ELSE updated

\* the updates the fields of a list entry send: the Description field, the
\* Dur field and the TTS button
FieldUpdates(v) ==
    { [description |-> stripNonAlphanumeric(value)] : value \in TypedDescriptions }
    \cup { [duration |-> parseIntOr(value, 0)] : value \in TypedDurations }
    \cup { [isTTSSafe |-> ~v.isTTSSafe] }

updateVideo ==
    /\ click("field")
    /\ \E index \in 0..(Len(page.videos) - 1) : \E updates \in FieldUpdates(page.videos[index + 1]) :
        /\ page' = [page EXCEPT !.videos =
                        [k \in 1..Len(page.videos) |->
                            IF k - 1 = index
                            THEN updatedVideo(page.videos[k], k - 1, updates, Render)
                            ELSE page.videos[k]]]
        /\ outcome' = noteRegenerated(outcome, {page.videos[index + 1].id})
    /\ UNCHANGED <<configVars, load, tr, drive, rn>>

\* the text field of the suggested name, shown while the entry is edited
updateSuggestedName ==
    /\ click("name")
    /\ \E index \in 0..(Len(page.videos) - 1) : \E newName \in TypedNames :
        /\ page.videos[index + 1].isEditing
        /\ page' = [page EXCEPT !.videos[index + 1].suggestedName = newName]
        /\ outcome' = noteManualEdit(outcome, page.videos[index + 1].id)
    /\ UNCHANGED <<configVars, load, tr, drive, rn>>

\* the Edit button, and the blur or Enter of the text field
toggleEdit ==
    /\ click("toggle")
    /\ \E index \in 0..(Len(page.videos) - 1) :
           page' = [page EXCEPT !.videos[index + 1].isEditing = ~@]
    /\ UNCHANGED <<configVars, load, tr, drive, rn, outcome>>

\* the click on Regenerate Names
regenerateAllNames ==
    /\ Len(page.videos) > 0
    /\ click("regenerate")
    /\ page' = [page EXCEPT !.videos =
                    [k \in 1..Len(page.videos) |->
                        LET v == page.videos[k]
                        IN [v EXCEPT !.suggestedName =
                               generateFileName(Render, k - 1, v.multiplier, v.isTTSSafe,
                                                v.description, v.duration)]]]
    /\ outcome' = noteRegenerated(outcome, {page.videos[k].id : k \in 1..Len(page.videos)})
    /\ UNCHANGED <<configVars, load, tr, drive, rn>>

transcribeAnswered == transcribeAnsweredIn(TranscribeEnvs)

\* the click on Rename All Files: the batch is sent to the rename route
renameAll ==
    /\ Len(page.videos) > 0
    /\ ~page.renaming
    /\ rn.phase = "idle"
    /\ click("rename")
    /\ \E auth \in RenameAuth :
           rn' = renameRequest(auth[1], auth[2], "renames", renamesOf(page.videos))
    /\ page' = [page EXCEPT !.renaming = TRUE]
    /\ UNCHANGED <<load, tr, drive, outcome>>

\* the alert renameAll shows for the answer data, or for a request that threw
renameAlert(network, data) ==
    IF ~network THEN "Failed to rename files"
    ELSE IF data.success THEN "Successfully renamed " \o toString(data.renamed) \o " files!"
    ELSE "Error: " \o data.error

\* the rename route has answered; the answer arrives or the request throws
renameAnswered ==
    /\ page.renaming
    /\ rn.phase = "done"
    /\ \E network \in BOOLEAN :
           page' = [page EXCEPT !.renaming = FALSE,
                                !.alert = renameAlert(network, rn.response),
                                !.videos = IF network /\ rn.response.success
                                           THEN showSuggestedNames(@) ELSE @]
    /\ rn' = NoRename
    /\ UNCHANGED <<clicks, load, tr, drive, outcome>>

\* the pages as constructed, for the specifications that leave them unused
ClientIdle ==
    /\ legacy = LegacyInitial
    /\ page = PageInitial
    /\ load = NoLoad
    /\ tr = NoTranscribe
    /\ outcome = <<>>
    /\ clicks = NoClicks

(***************************************************************************)
(* Allocation and composition as a state machine: the inputs of one naming *)
(* are drawn, and the route or the page names the video.                   *)
(***************************************************************************)
\* the number of files already in the folder
MaxExisting == 2
\* the largest starting sequence
MaxStart == 3

ExistingNames == <<
    "100007.TTS.0.Ad.15sec.mp4",
    "100009.TTS.0.Ad.15sec.mp4",
    "100001.6.Ad.0sec.mp4",
    "3000123.TTS.0.Ad.0sec.mp4",
    "1000.mp4",
    "clip 100012.mp4" >>

\* the inputs of a naming by the process-video route
RouteNamingStart ==
    /\ \E n \in 0..MaxExisting : \E f \in [1..n -> 1..Len(ExistingNames)] :
       \E m \in {"1000", "3000", "0001"}, start \in 1..MaxStart, ok \in BOOLEAN,
          safe \in BOOLEAN, code \in {"0", "6"} :
           naming = [NoNaming EXCEPT !.target = "route", !.multiplier = m,
                        !.existing = [i \in 1..n |-> ExistingNames[f[i]]],
                        !.listingOk = ok, !.sequenceStart = start, !.isSafe = safe,
                        !.description = "Ad", !.duration = 15, !.creatorCode = code]
    /\ ConfigInitial

\* the inputs of a naming by the page
PageNamingStart ==
    /\ \E m \in {MULTIPLIER_OPTIONS[i] : i \in 1..Len(MULTIPLIER_OPTIONS)},
          idx \in 0..1, safe \in BOOLEAN, desc \in {"", "Ad"}, dur \in {0, 15} :
           naming = [NoNaming EXCEPT !.target = "page", !.multiplier = m, !.index = idx,
                        !.isSafe = safe, !.description = desc, !.duration = dur]
    /\ creatorSelection \in {CREATOR_OPTIONS[i] : i \in 1..Len(CREATOR_OPTIONS)}
    /\ customInitials \in (IF creatorSelection.code = "5"
                           THEN {typedInitials(value) : value \in TypedInitials}
                           ELSE {""})
    /\ startingSequence \in (1..MaxStart) \cup {9999}

\* process-video route: allocate the sequence number and build the file name
nameByRoute ==
    /\ naming.target = "route" /\ ~naming.done
    /\ LET sequence == allocateSequence(naming.multiplier, naming.sequenceStart,
                                        [ok |-> naming.listingOk, files |-> naming.existing])
       IN naming' = [naming EXCEPT !.done = TRUE, !.sequence = sequence,
                        !.name = composeSuggestedName(naming.multiplier, sequence, naming.isSafe,
                                     naming.creatorCode, naming.description, naming.duration)]
    /\ UNCHANGED <<classifyVars, configVars, renameVars, clientVars>>

\* page: generateFileName for the video at naming.index
nameByPage ==
    /\ naming.target = "page" /\ ~naming.done
    /\ naming' = [naming EXCEPT !.done = TRUE, !.sequence = startingSequence + naming.index,
                     !.name = generateFileName(Render, naming.index, naming.multiplier, naming.isSafe,
                                  naming.description, naming.duration)]
    /\ UNCHANGED <<classifyVars, configVars, renameVars, clientVars>>

InitNaming == ClassifyIdle /\ RenameIdle /\ ClientIdle /\ (RouteNamingStart \/ PageNamingStart)

NextNaming == nameByRoute \/ nameByPage

SpecNaming == InitNaming /\ [][NextNaming]_vars

(***************************************************************************)
(* Properties of the allocator and the composers (checked under            *)
(* SpecNaming).                                                            *)
(***************************************************************************)
\* the names the allocation has seen: those the listing returned
ListedNames == IF naming.listingOk THEN naming.existing ELSE <<>>

\* the integers that follow the multiplier code at the start of a name
FoundSequences(multiplier, names) ==
    { parseDigits(matchSequence(multiplier, names[k])) :
        k \in { j \in 1..Len(names) : matchSequence(multiplier, names[j]) # "" } }

MaxOf(S) == CHOOSE x \in S : \A y \in S : y <= x

RoundTrips ==
    /\ matchSequence(naming.multiplier, naming.name) # ""
    /\ parseDigits(matchSequence(naming.multiplier, naming.name)) = naming.sequence

SafetyLabels(name) ==
    { label \in {"TTS", "NTTS"} : includes("." \o name \o ".", "." \o label \o ".") }

C20_NoPathSeparator ==
    naming.done => ~includes(naming.name, "/") /\ ~includes(naming.name, "\\")

\* the digits a composed name carries for the sequence number: those that
\* follow the multiplier code in a name of the process-video route, and the
\* multiplier and the creator code in a name of the page
SequenceDigits ==
    IF naming.target = "route"
    THEN matchSequence(naming.multiplier, naming.name)
    ELSE matchSequence(naming.multiplier \o creatorSelection.code, naming.name)

\* C21: the sequence number is rendered in the file name as a zero-padded
\* decimal string of one fixed width, 4 digits in the page and 2 digits in the
\* process-video route, for every sequence value that can be allocated or
\* configured.
C21_FixedWidthSequence ==
    naming.done =>
        /\ Len(SequenceDigits) = (IF naming.target = "route" THEN 2 ELSE 4)
        /\ parseDigits(SequenceDigits) = naming.sequence

(***************************************************************************)
(* The classifier as a state machine: a transcript arrives and one of the  *)
(* routes analyses it.                                                     *)
(***************************************************************************)
\* the number of pieces a transcript of the model is put together from
MaxPieces == 2

Pieces == <<
    "Only $12.95 gets you extra entries",
    "Get triple entries before the contest ends! No payment needed.",
    "Purchase quadruple entries ending soon",
    "No Credit Card, PAY",
    " ",
    "Double or",
    "5X  Entries",
    "last\nchance",
    "Hey, the um is so",
    "__" >>

ClassifyStart ==
    /\ \E n \in 0..MaxPieces : \E f \in [1..n -> 1..Len(Pieces)] :
           transcript = join([i \in 1..n |-> Pieces[f[i]]], "")
    /\ cls = NoClassification

\* process-video route: "Analyze transcript"
classifyProcessVideo ==
    /\ cls.route = "none"
    /\ cls' = [route |-> "process-video",
               multiplier |-> detectMultiplier(transcript),
               isTTSSafe |-> isTTSSafePV(transcript),
               description |-> extractDescriptionPV(transcript)]
    /\ UNCHANGED <<transcript, naming, configVars, renameVars, clientVars>>

\* transcribe route, the revision that calls the Whisper API
classifyTranscribeApi ==
    /\ cls.route = "none"
    /\ cls' = [route |-> "transcribe-api",
               multiplier |-> "",
               isTTSSafe |-> isTTSSafe(transcript),
               description |-> extractDescriptionApi(transcript)]
    /\ UNCHANGED <<transcript, naming, configVars, renameVars, clientVars>>

\* transcribe route, the revision that runs Whisper locally
classifyTranscribeLocal ==
    /\ cls.route = "none"
    /\ cls' = [route |-> "transcribe-local",
               multiplier |-> "",
               isTTSSafe |-> isTTSSafe(transcript),
               description |-> extractDescriptionLocal(transcript)]
    /\ UNCHANGED <<transcript, naming, configVars, renameVars, clientVars>>

InitClassify == ClassifyStart /\ NamingIdle /\ ConfigInitial /\ RenameIdle /\ ClientIdle

NextClassify ==
    \/ classifyProcessVideo
    \/ classifyTranscribeApi
    \/ classifyTranscribeLocal

SpecClassify == InitClassify /\ [][NextClassify]_vars

(***************************************************************************)
(* Properties of the classifier (checked under SpecClassify).              *)
(***************************************************************************)
Phrases(list) == { list[k] : k \in 1..Len(list) }

\* p is a contiguous part of s: some suffix of s starts with p
OccursIn(p, s) ==
    \E a \in 0..Len(s) :
        LET rest == SubSeq(s, a + 1, Len(s))
        IN Len(rest) >= Len(p) /\ SubSeq(rest, 1, Len(p)) = p

DenylistOf(route) == IF route = "process-video" THEN PAYMENT_PHRASES_PV ELSE PAYMENT_PHRASES

Denylisted(route, t) == \E p \in Phrases(DenylistOf(route)) : OccursIn(p, toLowerCase(t))

\* C1: the safety check answers false exactly when the lower-cased transcript
\* contains a phrase of the route's payment denylist, whatever the case and the
\* surrounding text; it answers true for the empty transcript and false for
\* "Only $12.95 gets you extra entries".
C1_SafetyCheck ==
    cls.route # "none" =>
        /\ cls.isTTSSafe = ~Denylisted(cls.route, transcript)
        /\ (transcript = "" => cls.isTTSSafe)
        /\ (transcript = "Only $12.95 gets you extra entries" => ~cls.isTTSSafe)

\* a transcript was classified unsafe although no phrase occurs in it in the
\* denylist's own letter case, and text precedes the match
C1_Witness ==
    /\ cls.route = "transcribe-api"
    /\ ~cls.isTTSSafe
    /\ \A p \in Phrases(PAYMENT_PHRASES) : ~OccursIn(p, transcript)
    /\ \E p \in Phrases(PAYMENT_PHRASES) :
           OccursIn(p, toLowerCase(transcript)) /\ SubSeq(toLowerCase(transcript), 1, Len(p)) # p

MultiplierCodes == {"5000", "4000", "3000", "2000", "1000", "0001"}

PriorityOrder == <<"5000", "4000", "3000", "2000", "0001">>

\* some rule of the code matches somewhere in t
RuleMatches(code, t) ==
    \E k \in 1..Len(MULTIPLIER_PATTERNS) :
        MULTIPLIER_PATTERNS[k].multiplier = code /\ test(MULTIPLIER_PATTERNS[k].pattern, t)

FirstByPriority(t) ==
    LET hits == { i \in 1..Len(PriorityOrder) : RuleMatches(PriorityOrder[i], t) }
    IN IF hits = {} THEN "1000"
       ELSE PriorityOrder[CHOOSE i \in hits : \A j \in hits : i <= j]

\* C2: detectMultiplier returns the code of the first rule in the priority order
\* 5000, 4000, 3000, 2000, 0001 that matches anywhere in the transcript, and 1000
\* when none matches: always one of the six codes.
C2_DetectMultiplierTotal ==
    cls.route = "process-video" =>
        /\ cls.multiplier = FirstByPriority(transcript)
        /\ cls.multiplier \in MultiplierCodes

\* the transcript mentions "double" before "5X entries" and is classified 5000
C2_Witness ==
    /\ cls.route = "process-video"
    /\ cls.multiplier = "5000"
    /\ \E n \in 1..Len(transcript) :
           /\ RuleMatches("2000", SubSeq(transcript, 1, n))
           /\ ~RuleMatches("5000", SubSeq(transcript, 1, n))

\* C3 (as stated): every description has at most 25 characters and is never
\* empty, "Ad" standing in when nothing remains after cleaning.
C3_DescriptionAtMost25 ==
    cls.route # "none" =>
        /\ Len(cls.description) <= 25
        /\ cls.description # ""
        /\ (cleanTranscript(transcript) = "" => cls.description = "Ad")

\* C3 (amended): the description of the transcribe route has at most 25
\* characters and that of the process-video route at most 30; neither is ever
\* empty, "Ad" standing in when nothing remains after cleaning.
C3_DescriptionBounded ==
    cls.route # "none" =>
        /\ Len(cls.description) <= (IF cls.route = "process-video" THEN 30 ELSE 25)
        /\ cls.description # ""
        /\ (cleanTranscript(transcript) = "" => cls.description = "Ad")

\* a description of the transcribe route that was cut to 25 characters
C3_Witness ==
    /\ cls.route = "transcribe-local"
    /\ Len(cls.description) = 25
    /\ Len(describeWithoutLimit(skipWordsLocal, transcript)) > 25

ExampleTranscript == "Get triple entries before the contest ends! No payment needed."

\* C16 (as stated): classifying "Get triple entries before the contest ends!
\* No payment needed." yields the multiplier code 3000 and isSafe = true.
C16_ExampleSafe ==
    (transcript = ExampleTranscript /\ cls.route # "none") =>
        /\ cls.isTTSSafe
        /\ cls.route = "process-video" => cls.multiplier = "3000"

\* C16 (amended): classifying that transcript yields the multiplier code 3000
\* and isSafe = false in every route, because the transcript contains the
\* denylisted phrase "payment".
C16_ExampleUnsafe ==
    (transcript = ExampleTranscript /\ cls.route # "none") =>
        /\ ~cls.isTTSSafe
        /\ "payment" \in Phrases(DenylistOf(cls.route))
        /\ OccursIn("payment", toLowerCase(transcript))
        /\ cls.route = "process-video" => cls.multiplier = "3000"

\* the example transcript classified by the process-video route
C16_Witness ==
    /\ transcript = ExampleTranscript
    /\ cls.route = "process-video"
    /\ cls.multiplier = "3000"
    /\ ~cls.isTTSSafe

\* C17 (as stated): the description extracted from the example transcript is
\* "GetTripleEntriesBefore", built from its first four significant words.
C17_ExampleDescription ==
    (transcript = ExampleTranscript /\ cls.route # "none") =>
        cls.description = "GetTripleEntriesBefore"

\* C17 (amended): the description extracted from the example transcript is
\* "GetTripleEntriesBefore" in the revision of the transcribe route that calls
\* the Whisper API, "TripleEntriesBeforeContes" in the revision that runs
\* Whisper locally (get is a stop word there, and the four words are cut at 25
\* characters), and "Get_triple_entries_before_the" in the process-video route.
C17_ExampleDescriptionByRoute ==
    (transcript = ExampleTranscript /\ cls.route # "none") =>
        cls.description = (CASE cls.route = "transcribe-api" -> "GetTripleEntriesBefore"
                             [] cls.route = "transcribe-local" -> "TripleEntriesBeforeContes"
                             [] cls.route = "process-video" -> "Get_triple_entries_before_the")

\* the example transcript described by the revision that calls the Whisper API
C17_Witness ==
    /\ transcript = ExampleTranscript
    /\ cls.route = "transcribe-api"
    /\ cls.description = "GetTripleEntriesBefore"

\* the positions of t at which a word starts: a letter, digit or _ that no
\* letter, digit or _ precedes
WordStarts(t) ==
    { i \in 1..Len(t) : IsWordChar(CharAt(t, i)) /\ (i = 1 \/ ~IsWordChar(CharAt(t, i - 1))) }

\* the word that starts at position i: the run of letters, digits and _ up to
\* the next other character
WordAt(t, i) ==
    LET ends == { e \in i..Len(t) :
                     /\ \A m \in i..e : IsWordChar(CharAt(t, m))
                     /\ (e = Len(t) \/ ~IsWordChar(CharAt(t, e + 1))) }
    IN SubSeq(t, i, CHOOSE e \in ends : TRUE)

\* the words of t in the order of the text
WordsOf(t) ==
    LET starts == WordStarts(t)
        nth(k) == CHOOSE i \in starts : Cardinality({ j \in starts : j < i }) = k - 1
    IN [k \in 1..Cardinality(starts) |-> WordAt(t, nth(k))]

\* first letter in upper case, the rest in lower case
Capitalized(w) == toUpperCase(SubSeq(w, 1, 1)) \o toLowerCase(SubSeq(w, 2, Len(w)))

RECURSIVE Concatenated(_)
Concatenated(words) ==
    IF words = <<>> THEN "" ELSE Head(words) \o Concatenated(Tail(words))

\* the description as the steps of the statement give it: the words that are
\* longer than 2 and not stop words, the first 4 of them capitalized and
\* concatenated, the first 25 characters of that
StatedDescription(stopWords, t) ==
    LET significant == SelectSeq(WordsOf(t),
                                 LAMBDA w : Len(w) > 2 /\ toLowerCase(w) \notin stopWords)
        chosen == SubSeq(significant, 1, IF Len(significant) < 4 THEN Len(significant) ELSE 4)
        whole == Concatenated([k \in 1..Len(chosen) |-> Capitalized(chosen[k])])
    IN SubSeq(whole, 1, IF Len(whole) < 25 THEN Len(whole) ELSE 25)

\* the description of the process-video route: the first 5 words joined by _,
\* the first 30 characters of that, without the _ at its end
UnderscoredDescription(t) ==
    LET words == WordsOf(t)
        count == IF Len(words) < 5 THEN Len(words) ELSE 5
        whole == Concatenated([k \in 1..count |->
                                  IF k = 1 THEN words[k] ELSE "_" \o words[k]])
        cut == SubSeq(whole, 1, IF Len(whole) < 30 THEN Len(whole) ELSE 30)
        keep == { n \in 0..Len(cut) :
                     /\ \A m \in (n + 1)..Len(cut) : CharAt(cut, m) = "_"
                     /\ (n = 0 \/ CharAt(cut, n) # "_") }
    IN SubSeq(cut, 1, CHOOSE n \in keep : TRUE)

StopWordsOf(route) == IF route = "transcribe-local" THEN skipWordsLocal ELSE skipWordsApi

\* C18 (as stated): every extractDescription gives, for every transcript, what
\* the steps give: punctuation to spaces, white space collapsed, split into
\* words, stop words and words of length <= 2 dropped, the first 4 remaining
\* words capitalized and concatenated, the first 25 characters kept.
C18_DescriptionBySteps ==
    cls.route # "none" => cls.description = StatedDescription(StopWordsOf(cls.route), transcript)

\* C18 (amended): both revisions of the transcribe route give what these steps
\* give with the revision's own stop-word list, and "Ad" when that is empty;
\* the process-video route drops no word, joins the first 5 words with _,
\* keeps the first 30 characters without the _ at the end, and gives "Ad" when
\* that is empty.
C18_DescriptionByStepsOrAd ==
    cls.route # "none" =>
        LET stated == IF cls.route = "process-video"
                      THEN UnderscoredDescription(transcript)
                      ELSE StatedDescription(StopWordsOf(cls.route), transcript)
        IN cls.description = (IF stated = "" THEN "Ad" ELSE stated)

\* a transcript with punctuation, a stop word and a short word, of which the
\* transcribe route kept four capitalized words
C18_Witness ==
    /\ cls.route = "transcribe-api"
    /\ transcript = "Hey, the um is soPurchase quadruple entries ending soon"
    /\ cls.description = "SopurchaseQuadrupleEntrie"

\* the letters and digits
Alphanumeric == CharSet(UpperChars) \cup CharSet(LowerChars) \cup CharSet(DigitChars)

\* C24 (as stated): every description produced from a transcript consists only
\* of letters and digits, with no underscore, punctuation or white space.
C24_DescriptionAlphanumeric ==
    cls.route # "none" => CharSet(cls.description) \subseteq Alphanumeric

\* C24 (amended): every description consists of letters, digits and
\* underscores only, with no punctuation or white space; a description of the
\* transcribe route has an underscore only when the transcript has one (the
\* process-video route joins the words of its description by underscores).
C24_DescriptionWordCharacters ==
    cls.route # "none" =>
        /\ CharSet(cls.description) \subseteq Alphanumeric \cup {"_"}
        /\ (cls.route # "process-video" /\ "_" \notin CharSet(transcript))
               => CharSet(cls.description) \subseteq Alphanumeric

\* the transcribe route described a transcript that has punctuation and white
\* space, and no underscore, by letters only
C24_Witness ==
    /\ cls.route = "transcribe-api"
    /\ {"$", ".", " "} \subseteq CharSet(transcript)
    /\ "_" \notin CharSet(transcript)
    /\ cls.description # "Ad"
    /\ CharSet(cls.description) \subseteq Alphanumeric

(***************************************************************************)
(* The rename route as a state machine: a batch arrives and is served.     *)
(***************************************************************************)
\* the number of pairs of a batch
MaxBatch == 2

InitialDrive == [f \in {"f1", "f2"} |-> IF f = "f1" THEN "a.mp4" ELSE "b.mp4"]

RenameStart ==
    /\ drive = InitialDrive
    /\ \E n \in 0..MaxBatch :
       \E ids \in [1..n -> {"f1", "f2", "gone"}], names \in [1..n -> {"100001.mp4", "100002.mp4"}] :
       \E auth \in {<<FALSE, FALSE>>, <<TRUE, FALSE>>, <<TRUE, TRUE>>},
          body \in {"renames", "invalid", "unreadable"} :
           /\ (body # "renames" => n = 0)
           /\ rn = renameRequest(auth[1], auth[2], body,
                                 [i \in 1..n |-> [fileId |-> ids[i], newName |-> names[i]]])

InitRename == ClassifyIdle /\ NamingIdle /\ ConfigInitial /\ ClientIdle /\ RenameStart

NextRename ==
    \/ renameReceive /\ UNCHANGED <<classifyVars, naming, configVars, clientVars>>
    \/ renameStep /\ UNCHANGED <<classifyVars, naming, configVars, clientVars>>
    \/ renameRespond /\ UNCHANGED <<classifyVars, naming, configVars, clientVars>>

SpecRename == InitRename /\ [][NextRename]_vars

(***************************************************************************)
(* Properties of the rename route (checked under SpecRename).              *)
(***************************************************************************)
FailedIds(attempts) ==
    LET failed == SelectSeq(attempts, LAMBDA a : ~a.ok)
    IN [k \in 1..Len(failed) |-> failed[k].fileId]

\* C10: the route attempts every pair of the batch once, in order, also after
\* a failure; it answers with the number of successful updates and the failed
\* ids, which add up to the batch size; no failed pair is retried and no
\* successful rename is undone.
C10_RenameBatch ==
    /\ \A k \in 1..Len(rn.attempts) :
           /\ k <= Len(rn.renames)
           /\ rn.attempts[k].fileId = rn.renames[k].fileId
           /\ rn.attempts[k].newName = rn.renames[k].newName
           /\ rn.attempts[k].ok =>
                  \/ drive[rn.attempts[k].fileId] = rn.attempts[k].newName
                  \/ \E j \in (k + 1)..Len(rn.attempts) :
                         rn.attempts[j].ok /\ rn.attempts[j].fileId = rn.attempts[k].fileId
    /\ rn.phase = "running" => Len(rn.attempts) = rn.pos - 1
    /\ (rn.phase = "done" /\ rn.response.success) =>
           /\ Len(rn.attempts) = Len(rn.renames)
           /\ rn.response.renamed = Cardinality({ k \in 1..Len(rn.attempts) : rn.attempts[k].ok })
           /\ rn.response.errors = FailedIds(rn.attempts)
           /\ rn.response.renamed + Len(rn.response.errors) = Len(rn.renames)

\* a batch answered after its first pair failed and its second succeeded
C10_Witness ==
    /\ rn.phase = "done" /\ rn.response.success
    /\ Len(rn.attempts) = 2
    /\ ~rn.attempts[1].ok /\ rn.attempts[2].ok
    /\ rn.response.renamed = 1 /\ rn.response.errors = <<rn.renames[1].fileId>>

(***************************************************************************)
(* The earlier page with the process-video and the rename route as a state *)
(* machine: a folder is selected, its videos are processed one by one and  *)
(* the suggested names are sent to the rename route.                       *)
(***************************************************************************)
\* the number of files of the folder
MaxVideos == 2

FolderNames == <<"100002.TTS.CH.Ad.0sec.mp4", "clip.mp4">>

\* the folder when the session starts
FolderStart ==
    \E n \in 0..MaxVideos : \E names \in [1..n -> 1..Len(FolderNames)] :
        drive = [f \in {FileIds[k] : k \in 1..n} |->
                    FolderNames[names[CHOOSE k \in 1..n : FileIds[k] = f]]]

ClientStart ==
    /\ legacy = LegacyInitial
    /\ page = PageInitial
    /\ load = NoLoad
    /\ tr = NoTranscribe
    /\ outcome = [f \in DOMAIN drive |-> NoOutcome]
    /\ clicks = NoClicks

InitBatch ==
    /\ ClassifyIdle /\ NamingIdle /\ ConfigInitial
    /\ FolderStart
    /\ rn = NoRename
    /\ ClientStart

NextBatch ==
    \/ selectFolder /\ UNCHANGED <<classifyVars, naming, configVars, pageVars>>
    \/ setCreatorCode /\ UNCHANGED <<classifyVars, naming, configVars, pageVars>>
    \/ legacyProcessVideos /\ UNCHANGED <<classifyVars, naming, configVars, pageVars>>
    \/ legacyListed /\ UNCHANGED <<classifyVars, naming, configVars, pageVars>>
    \/ legacyProcessed /\ UNCHANGED <<classifyVars, naming, configVars, pageVars>>
    \/ legacyRenameAll /\ UNCHANGED <<classifyVars, naming, configVars, pageVars>>
    \/ legacyRenameAnswered /\ UNCHANGED <<classifyVars, naming, configVars, pageVars>>
    \/ renameReceive /\ UNCHANGED <<classifyVars, naming, configVars, clientVars>>
    \/ renameStep /\ UNCHANGED <<classifyVars, naming, configVars, clientVars>>
    \/ renameRespond /\ UNCHANGED <<classifyVars, naming, configVars, clientVars>>

SpecBatch == InitBatch /\ [][NextBatch]_vars

(***************************************************************************)
(* Properties of a processing batch (checked under SpecBatch).             *)
(***************************************************************************)
\* the sequence number a name carries for a multiplier code: the digits the
\* allocator's pattern captures; -1 when the pattern does not match
sequenceIn(multiplier, name) ==
    IF matchSequence(multiplier, name) # ""
    THEN parseDigits(matchSequence(multiplier, name))
    ELSE -1

\* C5: within one processing batch, two videos that got the same multiplier
\* code never got the same sequence number.
C5_NoIntraBatchDuplicate ==
    \A j, k \in 1..Len(legacy.videos) :
        LET a == legacy.videos[j]
            b == legacy.videos[k]
        IN (/\ j < k
            /\ a.suggestedName # "" /\ ~hasError(a)
            /\ b.suggestedName # "" /\ ~hasError(b)
            /\ a.multiplier = b.multiplier)
           => sequenceIn(a.multiplier, a.suggestedName) # sequenceIn(b.multiplier, b.suggestedName)

\* C8: a video whose transcript could not be obtained (the download, the
\* audio extraction or the speech-to-text failed) has the safe defaults, a
\* suggested name, and takes part in the rename batch.
C8_ClassificationNeverFails ==
    \A k \in 1..Len(legacy.videos) :
        LET v == legacy.videos[k]
        IN (/\ v.id \in DOMAIN outcome
            /\ outcome[v.id].last \in {"downloadFailed", "speechFailed"}
            /\ ~v.processing)
           => /\ v.isTTSSafe /\ v.description = "Ad" /\ v.multiplier = "1000"
              /\ v.suggestedName # ""
              /\ \E p \in 1..Len(renamesOf(legacy.videos)) :
                     renamesOf(legacy.videos)[p].fileId = v.id

(***************************************************************************)
(* The page with the listing, the transcribe and the rename route as a     *)
(* state machine.                                                          *)
(***************************************************************************)
InitPage ==
    /\ ClassifyIdle /\ NamingIdle /\ ConfigInitial
    /\ FolderStart
    /\ rn = NoRename
    /\ ClientStart

NextPage ==
    \/ handleFolderUrlChange /\ UNCHANGED <<classifyVars, naming, configVars, legacy>>
    \/ processVideos /\ UNCHANGED <<classifyVars, naming, configVars, legacy>>
    \/ videosListed /\ UNCHANGED <<classifyVars, naming, configVars, legacy>>
    \/ transcribeAll /\ UNCHANGED <<classifyVars, naming, configVars, legacy>>
    \/ transcribeAnswered /\ UNCHANGED <<classifyVars, naming, configVars, legacy>>
    \/ renameAll /\ UNCHANGED <<classifyVars, naming, configVars, legacy>>
    \/ renameAnswered /\ UNCHANGED <<classifyVars, naming, configVars, legacy>>
    \/ renameReceive /\ UNCHANGED <<classifyVars, naming, configVars, clientVars>>
    \/ renameStep /\ UNCHANGED <<classifyVars, naming, configVars, clientVars>>
    \/ renameRespond /\ UNCHANGED <<classifyVars, naming, configVars, clientVars>>

SpecPage == InitPage /\ [][NextPage]_vars

\* the page when every request in flight eventually answers or fails: the
\* answer of the listing, of the transcribe request of the current video, and
\* the progress and the answer of the rename route
listingAnswers == videosListed /\ UNCHANGED <<classifyVars, naming, configVars, legacy>>

transcriptionAnswers == transcribeAnswered /\ UNCHANGED <<classifyVars, naming, configVars, legacy>>

renameProgresses ==
    (renameReceive \/ renameStep \/ renameRespond)
        /\ UNCHANGED <<classifyVars, naming, configVars, clientVars>>

renameAnswers == renameAnswered /\ UNCHANGED <<classifyVars, naming, configVars, legacy>>

SpecPageFair ==
    /\ InitPage /\ [][NextPage]_vars
    /\ WF_vars(listingAnswers)
    /\ WF_vars(transcriptionAnswers)
    /\ WF_vars(renameProgresses)
    /\ WF_vars(renameAnswers)

(***************************************************************************)
(* Properties of the page (checked under SpecPage).                        *)
(***************************************************************************)
\* C6: no suggested name carries a sequence number that another file of the
\* folder with the same multiplier code already carries.
C6_NoExistingSequence ==
    \A k \in 1..Len(page.videos) : \A f \in DOMAIN drive :
        LET v == page.videos[k]
        IN (/\ f # v.id
            /\ sequenceIn(v.multiplier, v.suggestedName) # -1)
           => sequenceIn(v.multiplier, v.suggestedName) # sequenceIn(v.multiplier, drive[f])

\* C9: a video whose transcription failed (the request threw, or the route
\* answered with an error) has the safe defaults and its error flag set, and
\* no video without a failed transcription has the error flag.
C9_FailedTranscriptionFlagged ==
    \A k \in 1..Len(page.videos) :
        LET v == page.videos[k]
        IN v.id \in DOMAIN outcome =>
            /\ (outcome[v.id].last \in TranscribeFailures /\ ~v.processing)
                   => v.isTTSSafe /\ v.description = "Ad" /\ hasError(v)
            /\ ~outcome[v.id].failed => ~hasError(v)

(***************************************************************************)
(* The folder field of the page as a state machine: a text is typed or     *)
(* pasted and handleFolderUrlChange resolves it.                           *)
(***************************************************************************)
\* the number of pieces a typed text is put together from
MaxUrlPieces == 2

UrlPieces == {
    "https://...",
    "/folders/",
    "/folders/ABC123",
    "ABC123",
    "1AbC_d-9",
    "?usp=sharing",
    "not a url",
    " ",
    "/",
    "folders" }

TypedUrls ==
    { join(pieces, "") : pieces \in UNION { [1..n -> UrlPieces] : n \in 0..MaxUrlPieces } }

\* onChange of the folder field
folderUrlTyped ==
    /\ \E url \in TypedUrls : page' = folderUrlChanged(page, url)
    /\ UNCHANGED <<classifyVars, naming, configVars, renameVars, legacy, load, tr,
                   outcome, clicks>>

InitResolve == ClassifyIdle /\ NamingIdle /\ ConfigInitial /\ RenameIdle /\ ClientIdle

NextResolve == folderUrlTyped

SpecResolve == InitResolve /\ [][NextResolve]_vars

(***************************************************************************)
(* Properties of the folder field (checked under SpecResolve).             *)
(***************************************************************************)
IdChars == CharSet(UpperChars) \cup CharSet(LowerChars) \cup CharSet(DigitChars) \cup {"_", "-"}

\* the positions of url at which the id of a path segment /folders/<id> starts
SegmentStarts(url) ==
    { p \in 10..Len(url) : SubSeq(url, p - 9, p - 1) = "/folders/" /\ CharAt(url, p) \in IdChars }

\* the run of letters, digits, _ and - that starts at position p
RunFrom(url, p) ==
    LET ends == { e \in p..Len(url) :
                     /\ \A m \in p..e : CharAt(url, m) \in IdChars
                     /\ (e = Len(url) \/ CharAt(url, e + 1) \notin IdChars) }
    IN SubSeq(url, p, CHOOSE e \in ends : TRUE)

\* url without the white space at its ends
Trimmed(url) ==
    LET solid == { i \in 1..Len(url) : CharAt(url, i) \notin {" ", "\t", "\n"} }
    IN IF solid = {} THEN ""
       ELSE SubSeq(url, CHOOSE i \in solid : \A j \in solid : i <= j,
                        CHOOSE i \in solid : \A j \in solid : j <= i)

\* the folder id as the statement resolves it, "" for the invalid reference
StatedFolderId(url) ==
    IF SegmentStarts(url) # {}
    THEN RunFrom(url, CHOOSE p \in SegmentStarts(url) : \A q \in SegmentStarts(url) : p <= q)
    ELSE IF Trimmed(url) # "" /\ CharSet(Trimmed(url)) \subseteq IdChars
    THEN Trimmed(url)
    ELSE ""

\* C13: the folder id is the <id> of a path segment /folders/<id> of the text;
\* else the trimmed text when it is non-empty and made of letters, digits, _
\* and - only; else the invalid reference.  "https://.../folders/ABC123" and
\* "ABC123" give "ABC123", "not a url" is invalid.
C13_FolderIdResolved ==
    /\ page.folderId = StatedFolderId(page.folderUrl)
    /\ page.folderUrl \in {"https://.../folders/ABC123", "ABC123"} => page.folderId = "ABC123"
    /\ page.folderUrl = "not a url" => page.folderId = "" /\ page.urlError # ""

\* an id typed with a space before it was resolved to the id
C13_Witness ==
    /\ page.folderUrl = " ABC123"
    /\ page.folderId = "ABC123"
    /\ page.urlError = ""

(***************************************************************************)
(* The folder field and Load Videos as a state machine.                    *)
(***************************************************************************)
NextLoad ==
    \/ handleFolderUrlChange /\ UNCHANGED <<classifyVars, naming, configVars, legacy>>
    \/ processVideos /\ UNCHANGED <<classifyVars, naming, configVars, legacy>>
    \/ videosListed /\ UNCHANGED <<classifyVars, naming, configVars, legacy>>

SpecLoad == InitPage /\ [][NextLoad]_vars

(***************************************************************************)
(* Properties of Load Videos (checked under SpecLoad).                     *)
(***************************************************************************)
\* C14: after the folder field is set to a non-empty text that cannot be
\* resolved, the error message is set and folderId is null; and while folderId
\* is null no step sends a listing request.
C14_InvalidReferenceBlocks ==
    /\ [](page.folderUrl # "" /\ StatedFolderId(page.folderUrl) = ""
              => page.urlError # "" /\ page.folderId = "")
    /\ [][page.folderId = "" => ~(load.pc # "listing" /\ load'.pc = "listing")]_vars

\* a text that cannot be resolved was typed after Load Videos had listed a folder
C14_Witness ==
    /\ page.folderUrl = "my videos"
    /\ page.urlError = "Invalid Google Drive folder URL"
    /\ page.folderId = ""
    /\ clicks.process = 1

\* the ids of the videos of the list, in the order of the list
ListedIds == [k \in 1..Len(page.videos) |-> page.videos[k].id]

\* C26: in every state the video list is empty or is the listing of the
\* folder that folderId holds: a listing response that arrives after the
\* folder field has been changed does not fill the list with the videos of
\* the previous folder.
C26_ListOfCurrentFolder ==
    page.videos = <<>> \/ (page.folderId # "" /\ ListedIds = filesOf(drive, page.folderId))

(***************************************************************************)
(* More properties of the page (checked under SpecPage).                   *)
(***************************************************************************)
\* the multiplier code detected in every transcript the page can hold
DetectedCode ==
    [t \in PageTranscripts \cup { trim(text) : text \in PageTranscripts } |-> detectMultiplier(t)]

\* C19: a video whose transcript has been obtained carries the multiplier code
\* detected from its transcript (written as the code or as its first digit, as
\* the page writes multipliers), and its suggested name starts with it.
C19_CarriesDetectedMultiplier ==
    \A k \in 1..Len(page.videos) :
        LET v == page.videos[k]
        IN v.transcript # "" =>
               /\ v.multiplier \in {DetectedCode[v.transcript],
                                    SubSeq(DetectedCode[v.transcript], 1, 1)}
               /\ SubSeq(v.suggestedName, 1, Len(v.multiplier)) = v.multiplier

\* C27: after Rename All has completed, the name the page shows for a video
\* is the name the storage provider records for the file: the shown name is
\* replaced by the suggested name only if the rename was sent and succeeded,
\* and a video whose rename failed or that was left out of the batch keeps
\* its shown name.
C27_ShownNameIsStoredName ==
    (clicks.rename > 0 /\ ~page.renaming /\ rn.phase = "idle") =>
        \A k \in 1..Len(page.videos) :
            page.videos[k].id \in DOMAIN drive
                => page.videos[k].name = drive[page.videos[k].id]

\* a request meets no session, or a session without an access token
Unauthenticated(env) == ~env.session \/ ~env.accessToken

\* the page tells the user that the request was not authorized: the only texts
\* it ever shows for a 401 answer are the alerts of renameAll
AuthenticationPrompt(p) == p.alert \in {"Error: Unauthorized", "Error: No access token"}

\* the steps in which a 401 answer reaches the page
ListingRefused == load.pc = "listing" /\ load'.pc = "idle" /\ load'.status = 401

TranscriptionRefused ==
    /\ tr.pc = "waiting" /\ tr' # tr
    /\ outcome'[tr.videos[tr.i + 1].id].last = "refused"

RenameRefused ==
    /\ page.renaming /\ ~page'.renaming
    /\ rn.response.status = 401
    /\ page'.alert # "Failed to rename files"

\* C22: a request to the rename, the video-listing or the transcribe route
\* that has no session, or whose session has no access token, is answered
\* with status 401 before any storage or transcription call is made (no file
\* is renamed, listed or downloaded); the page surfaces the answer as an
\* authentication prompt and does not send the request again.
C22_UnauthenticatedSurfaced ==
    /\ [](\A env \in ListEnvs : Unauthenticated(env) =>
             videosGET(DriveFolder, env, drive) \in {errorBody(401, "Unauthorized"),
                                                     errorBody(401, "No access token")})
    /\ [](\A env \in TranscribeEnvs : Unauthenticated(env) =>
             LET res == transcribePOST([fileId |-> "f1", fileName |-> "clip.mp4"], env)
             IN res.status = 401 /\ DOMAIN res.body = {"error"})
    /\ []((rn.phase = "done" /\ (~rn.session \/ ~rn.accessToken)) =>
             rn.response.status = 401 /\ rn.attempts = <<>>)
    /\ [][ListingRefused =>
             AuthenticationPrompt(page') /\ page'.videos = page.videos /\ ~page'.processing]_vars
    /\ [][TranscriptionRefused =>
             AuthenticationPrompt(page') /\ (tr'.pc = "idle" \/ tr'.i = tr.i + 1)]_vars
    /\ [][RenameRefused =>
             AuthenticationPrompt(page') /\ page'.videos = page.videos /\ rn'.phase = "idle"]_vars

(***************************************************************************)
(* The page with its settings and the controls of the list entries as a    *)
(* state machine: videos are loaded, settings and fields are changed,      *)
(* names are typed, regenerated and replaced by transcription results.     *)
(***************************************************************************)
\* the folder of the session
EditFolder == [f \in {"f1", "f2"} |-> IF f = "f1" THEN "clip.mp4" ELSE "intro.mp4"]

\* what the transcribe requests of the session meet
EditEnvs ==
    { TranscribeServed("api"),
      [TranscribeServed("local") EXCEPT !.failure = "speech"],
      [TranscribeServed("api") EXCEPT !.network = FALSE] }

InitEdit ==
    /\ ClassifyIdle /\ NamingIdle /\ ConfigInitial
    /\ drive = EditFolder
    /\ rn = NoRename
    /\ ClientStart

NextEdit ==
    \/ handleFolderUrlChange /\ UNCHANGED <<classifyVars, naming, configVars, legacy>>
    \/ processVideos /\ UNCHANGED <<classifyVars, naming, configVars, legacy>>
    \/ videosListed /\ UNCHANGED <<classifyVars, naming, configVars, legacy>>
    \/ handleCreatorChange /\ UNCHANGED <<classifyVars, naming, legacy>>
    \/ setCustomInitials /\ UNCHANGED <<classifyVars, naming, legacy>>
    \/ setStartingSequence /\ UNCHANGED <<classifyVars, naming, legacy>>
    \/ setDefaultMultiplier /\ UNCHANGED <<classifyVars, naming, legacy>>
    \/ updateVideo /\ UNCHANGED <<classifyVars, naming, legacy>>
    \/ updateSuggestedName /\ UNCHANGED <<classifyVars, naming, legacy>>
    \/ toggleEdit /\ UNCHANGED <<classifyVars, naming, legacy>>
    \/ regenerateAllNames /\ UNCHANGED <<classifyVars, naming, legacy>>
    \/ transcribeAll /\ UNCHANGED <<classifyVars, naming, configVars, legacy>>
    \/ transcribeAnsweredIn(EditEnvs) /\ UNCHANGED <<classifyVars, naming, configVars, legacy>>

SpecEdit == InitEdit /\ [][NextEdit]_vars

(***************************************************************************)
(* Properties of the suggested names (checked under SpecEdit).             *)
(***************************************************************************)
\* the name generateFileName composes for the entry v at position k of the
\* list under the settings of a render
ComposedName(render, k, v) ==
    generateFileName(render, k - 1, v.multiplier, v.isTTSSafe, v.description, v.duration)

\* the kinds of a step: a name is typed; a field of an entry is changed;
\* Regenerate Names is pressed; the list is replaced or emptied; the
\* transcription result of the entry at position k arrives
NameTyped == clicks'.name # clicks.name

FieldChanged == clicks'.field # clicks.field

NamesRegenerated == clicks'.regenerate # clicks.regenerate

ListReplaced == (load.pc = "listing" /\ load'.pc # "listing") \/ clicks'.folder # clicks.folder

ResultArrived(k) ==
    /\ tr.pc = "waiting" /\ tr' # tr
    /\ tr.i = k - 1
    /\ outcome'[tr.videos[k].id].last \in {"transcribed", "refused", "errorResponse"}

\* C11: typing a suggested name changes that video's suggested name and
\* nothing else; the typed name stays until the name is regenerated (or the
\* list is replaced); a change of the video's description, duration or safety
\* flag, Regenerate Names, and the arrival of its transcription result each
\* replace the name by the composed name.
C11_ManualEditUntilRegeneration ==
    [][ /\ NameTyped =>
              /\ \E j \in 1..Len(page.videos) :
                     page' = [page EXCEPT !.videos[j].suggestedName = page'.videos[j].suggestedName]
              /\ UNCHANGED configVars
        /\ ~ListReplaced =>
              /\ Len(page'.videos) = Len(page.videos)
              /\ \A k \in 1..Len(page.videos) :
                  LET v == page.videos[k]
                      w == page'.videos[k]
                  IN /\ w.suggestedName # v.suggestedName =>
                            \/ NameTyped
                            \/ FieldChanged /\ w # v
                            \/ NamesRegenerated
                            \/ ResultArrived(k)
                     /\ ((FieldChanged /\ \E f \in {"description", "duration", "isTTSSafe"} : w[f] # v[f])
                            \/ NamesRegenerated)
                          => w.suggestedName = ComposedName(Render, k, w)
                     /\ ResultArrived(k) => w.suggestedName = ComposedName(tr.render, k, w)
      ]_vars

\* a typed name has been replaced by a composed name
C11_Witness ==
    \E k \in 1..Len(page.videos) :
        /\ outcome[page.videos[k].id].edit = "replaced"
        /\ page.videos[k].suggestedName \notin TypedNames
        /\ page.videos[k].suggestedName = ComposedName(Render, k, page.videos[k])

\* C23: after any sequence of edits of the Starting Sequence # field (empty,
\* zero, negative and non-numeric input included), startingSequence is an
\* integer that is at least 1.
C23_StartingSequenceAtLeastOne == startingSequence \in Nat \ {0}

\* C12: the suggested name of every video that has not been manually edited
\* since its last regeneration equals the name composed from the current
\* naming settings, the video's position in the list and its multiplier,
\* safety flag, description and duration.
C12_NameMatchesSettings ==
    \A k \in 1..Len(page.videos) :
        LET v == page.videos[k]
        IN outcome[v.id].edit # "manual" => v.suggestedName = ComposedName(Render, k, v)

\* C28: in every state in which no suggested name has been edited manually,
\* the suggested names of the videos of the list are pairwise different,
\* whatever setting changes, field edits, transcriptions and regenerations led
\* to the state.
C28_NamesPairwiseDifferent ==
    (\A k \in 1..Len(page.videos) : outcome[page.videos[k].id].edit = "none") =>
        \A j, k \in 1..Len(page.videos) :
            j < k => page.videos[j].suggestedName # page.videos[k].suggestedName

\* the positions of the dots of a name
Dots(name) == { i \in 1..Len(name) : CharAt(name, i) = "." }

\* the initials a composed name carries: its part between the second and the
\* third dot
InitialsIn(name) ==
    LET dot(n) == CHOOSE i \in Dots(name) : Cardinality({ j \in Dots(name) : j < i }) = n - 1
    IN IF Cardinality(Dots(name)) < 3 THEN "" ELSE SubSeq(name, dot(2) + 1, dot(3) - 1)

\* C29: no automatically composed suggested name has an empty initials part:
\* Load Videos does not run while the initials are empty, and after a later
\* change of the creator or the custom initials and a regeneration the
\* initials of every name are still non-empty.
C29_InitialsNeverEmpty ==
    /\ [][getInitials(Render) = "" => ~(load.pc # "listing" /\ load'.pc = "listing")]_vars
    /\ [](\A k \in 1..Len(page.videos) :
              outcome[page.videos[k].id].edit # "manual"
                  => InitialsIn(page.videos[k].suggestedName) # "")

\* no entry of the list is marked as processing
NoneProcessing == \A k \in 1..Len(page.videos) : ~page.videos[k].processing

\* C30: if every request eventually answers or fails, every Load Videos,
\* Transcribe All and Rename All run eventually ends and clears its busy flag
\* (processing, transcribing, renaming), whether its requests succeed or fail,
\* and once a Transcribe All run has ended no video of the list is still
\* marked as processing.
C30_RunsEnd ==
    /\ (page.processing ~> (~page.processing /\ load.pc = "idle"))
    /\ (page.transcribing ~> (~page.transcribing /\ tr.pc = "idle"))
    /\ (page.renaming ~> (~page.renaming /\ rn.phase = "idle"))
    /\ []((~page.transcribing) => NoneProcessing)

\* the three runs have ended with their flags cleared, the transcription after
\* a request that threw and the rename after a refused request
C30_Witness ==
    /\ clicks.process > 0 /\ ~page.processing /\ load.pc = "idle"
    /\ clicks.transcribe > 0 /\ ~page.transcribing /\ tr.pc = "idle"
    /\ clicks.rename > 0 /\ ~page.renaming /\ rn.phase = "idle"
    /\ \E f \in DOMAIN outcome : outcome[f].last = "throws"
    /\ page.alert \in {"Error: Unauthorized", "Failed to rename files"}
    /\ Len(page.videos) > 1 /\ NoneProcessing

(***************************************************************************)
(* Transcribe All interleaved with a change of the folder field and Load   *)
(* Videos.  The page starts with the listing of one folder loaded; the     *)
(* storage provider holds a second folder.                                 *)
(***************************************************************************)
FolderUrlOf(folderId) == "https://drive.google.com/drive/folders/" \o folderId

TwoFolders == ("f1" :> "clip.mp4") @@ ("f2" :> "intro.mp4") @@ ("g1" :> "promo.mp4")

\* the page after the folder URL was pasted and Load Videos has listed it
LoadedPage(d, folderId, render) ==
    LET p == folderUrlChanged(PageInitial, FolderUrlOf(folderId))
        listed == videosGET(folderId, [network |-> TRUE, session |-> TRUE,
                                       accessToken |-> TRUE, listing |-> TRUE], d).body.videos
    IN [p EXCEPT !.videos = [k \in 1..Len(listed) |->
                                initialVideo(listed[k], k - 1, render, p.defaultMultiplier)]]

InitRace ==
    /\ ClassifyIdle /\ NamingIdle /\ ConfigInitial
    /\ drive = TwoFolders
    /\ rn = NoRename
    /\ legacy = LegacyInitial
    /\ page = LoadedPage(TwoFolders, DriveFolder, Render)
    /\ load = [NoLoad EXCEPT !.status = 200]
    /\ tr = NoTranscribe
    /\ outcome = [f \in DOMAIN drive |-> NoOutcome]
    /\ clicks = NoClicks

NextRace ==
    \/ handleFolderUrlChangeTo({FolderUrlOf(DriveFolder), FolderUrlOf(OtherFolder)})
           /\ UNCHANGED <<classifyVars, naming, configVars, legacy>>
    \/ processVideos /\ UNCHANGED <<classifyVars, naming, configVars, legacy>>
    \/ videosListed /\ UNCHANGED <<classifyVars, naming, configVars, legacy>>
    \/ transcribeAll /\ UNCHANGED <<classifyVars, naming, configVars, legacy>>
    \/ transcribeAnswered /\ UNCHANGED <<classifyVars, naming, configVars, legacy>>

SpecRace == InitRace /\ [][NextRace]_vars

\* what a transcription result writes into a list entry
resultOf(v) ==
    [transcript |-> v.transcript, isTTSSafe |-> v.isTTSSafe, description |-> v.description,
     suggestedName |-> v.suggestedName, error |-> orElse(v, "error", "")]

\* C25: a transcription result is only ever applied to the list entry of the
\* video whose id was sent in the transcribe request: under every
\* interleaving of Transcribe All with a change of the folder field and Load
\* Videos, the step in which the answer for a request arrives changes the
\* transcript, safety flag, description, name and error of no entry but
\* those of the video of the request.
C25_ResultAppliedToRequestedVideo ==
    [][(tr.pc = "waiting" /\ tr' # tr) =>
           /\ Len(page'.videos) = Len(page.videos)
           /\ \A k \in 1..Len(page.videos) :
                  /\ page'.videos[k].id = page.videos[k].id
                  /\ resultOf(page'.videos[k]) # resultOf(page.videos[k])
                         => page.videos[k].id = tr.videos[tr.i + 1].id]_vars

=============================================================================
